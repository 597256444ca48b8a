----------------------------- MODULE MCChunking -----------------------------
(***************************************************************************)
(* An instance of Chunking for TLC: all short texts over a few lengths of  *)
(* words, one of them as long as the room beside the shorter header, one   *)
(* longer by one, and one that is cut twice.                               *)
(***************************************************************************)
EXTENDS Indexing

Sum(s) == FoldLeft(LAMBDA x, y : x + y, 0, s)

\* Words with one space between two of them, and some more white space.
SentenceWith(words, more) ==
    [length |-> Sum(words) + Len(words) - 1 + more, words |-> words]

BlockOf(sentences) ==
    [length |-> Sum([i \in DOMAIN sentences |-> sentences[i].length]) + Len(sentences) - 1,
     sentences |-> sentences]

AllSentences ==
    {SentenceWith(<<w>>, 0) : w \in {1, 2, 5, 6, 11}}
    \cup {SentenceWith(<<v, w>>, more) : v \in {1, 2, 6}, w \in {1, 2, 3, 11}, more \in {0, 1}}

SingleBlocks ==
    {BlockOf(<<s>>) : s \in AllSentences}
    \cup {BlockOf(<<s, t>>) : s \in AllSentences, t \in AllSentences}

FewBlocks ==
    {BlockOf(<<SentenceWith(<<w>>, 0)>>) : w \in {1, 2, 5, 6}}
    \cup {BlockOf(<<SentenceWith(<<v>>, 0), SentenceWith(<<w>>, 0)>>) :
             v \in {1, 2, 6}, w \in {1, 2, 3, 11}}

Name == <<BlockOf(<<SentenceWith(<<2>>, 0)>>)>>

Entry(header, blocks) == [header |-> header, blocks |-> blocks]

\* Headers with room, with room for one character, and without.
MCResumes ==
    {[summary |-> Name, entries |-> <<Entry(h, <<b>>)>>, skills |-> <<>>] :
         h \in {3, 7, 8, 12}, b \in SingleBlocks}
    \cup {[summary |-> Name \o <<b>>, entries |-> <<>>, skills |-> <<c, d>>] :
             b \in FewBlocks, c \in FewBlocks, d \in FewBlocks}
    \cup {[summary |-> Name, entries |-> <<Entry(3, <<>>), Entry(h, <<b, c>>)>>, skills |-> <<>>] :
             h \in {3, 8}, b \in FewBlocks, c \in FewBlocks}
=============================================================================
