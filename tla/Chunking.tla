------------------------------ MODULE Chunking ------------------------------
(***************************************************************************)
(* How ResumeChunker (ingestion/chunking.py) cuts a resume into chunks.    *)
(* Each section of a resume is a header and some blocks of text; a chunk   *)
(* is the header with as many pieces of the blocks as fit.  A block that   *)
(* does not fit is split at the ends of its sentences, a sentence that     *)
(* does not fit at its spaces, and a word that does not fit anywhere.      *)
(*                                                                         *)
(* A text is the lengths of its words, and the lengths of its sentences    *)
(* and blocks as they stand, which count the white space in between.  Its  *)
(* characters are named by their places: block, sentence, word, and        *)
(* position in the word.                                                   *)
(***************************************************************************)
EXTENDS Integers, Sequences, Functions

CONSTANTS
    MaxCharacters,    \* the limit on the length of a chunk
    SummaryHeader,    \* the length of "SUMMARY"
    SkillsHeader,     \* the length of "SKILLS AND EXPERTISE"
    Resumes           \* the resumes that may be given

Positive == Nat \ {0}

Some(S) == Seq(S) \ {<<>>}

Sentences == [length : Positive, words : Some(Positive)]
Blocks == [length : Positive, sentences : Some(Sentences)]

\* An entry is an experience, a project or an education.
Entries == [header : Positive, blocks : Seq(Blocks)]

ResumeRecords == [summary : Seq(Blocks), entries : Seq(Entries), skills : Seq(Blocks)]

\* The constructor of ResumeChunker wants at least 200 characters; nothing
\* here depends on that.
ASSUME ChunkingAssumption ==
    /\ MaxCharacters \in Positive
    /\ SummaryHeader \in Positive
    /\ SkillsHeader \in Positive
    /\ Resumes \subseteq ResumeRecords

VARIABLES
    resume,      \* the resume
    pc,          \* the loop that takes the next step
    sec,         \* the section in hand
    blk,         \* the block in hand,
    snt,         \* the sentence of it,
    wrd,         \* the word of it,
    taken,       \* and how many of its characters are cut off already
    piece,       \* current, of _split_block and _split_words
    pieces,      \* the pieces of the block that are yet to be packed
    content,     \* current, of _pack_blocks
    contents,    \* the full chunks of the section
    drafts       \* the chunks of the sections before

place == <<sec, blk, snt, wrd, taken>>
packed == <<content, contents, drafts>>
vars == <<resume, pc, place, piece, pieces, packed>>

-----------------------------------------------------------------------------
(* The sections of a resume, in the order of chunk().  Skills without a    *)
(* block are left out, an entry without a block is not.                    *)

Sections(r) ==
    <<[header |-> SummaryHeader, blocks |-> r.summary]>>
    \o r.entries
    \o (IF r.skills = <<>> THEN <<>>
        ELSE <<[header |-> SkillsHeader, blocks |-> r.skills]>>)

Section == Sections(resume)[sec]
Header == Section.header
Block == Section.blocks[blk]
Sentence == Block.sentences[snt]
Word == Sentence.words[wrd]

\* Mutant of Available: the space after a piece counts as well.
AvailableShort(header) ==
    LET room == MaxCharacters - header - 3 IN IF room > 1 THEN room ELSE 1

\* The room a chunk has beside the header and an empty line.
Available(header) ==
    LET room == MaxCharacters - header - 2 IN IF room > 1 THEN room ELSE 1

Limit == Available(Header)

\* The characters of a word after the first from, up to the one at to.
WordPart(b, s, w, from, to) == {<<b, s, w, c>> : c \in from + 1 .. to}

WordText(b, s, w, size) == WordPart(b, s, w, 0, size)

SentenceText(b, s, sentence) ==
    UNION {WordText(b, s, w, sentence.words[w]) : w \in DOMAIN sentence.words}

BlockText(b, block) ==
    UNION {SentenceText(b, s, block.sentences[s]) : s \in DOMAIN block.sentences}

-----------------------------------------------------------------------------
(* Pieces and chunks.                                                      *)

Piece(length, text) == [length |-> length, text |-> text]
Nothing == Piece(0, {})

\* A space between two pieces, none after nothing.
Joined(p, q) ==
    Piece(IF p.length = 0 THEN q.length ELSE p.length + 1 + q.length,
          p.text \cup q.text)

Flushed(ps, p) == IF p.length > 0 THEN Append(ps, p) ELSE ps

\* A chunk with the header of section s alone.
Bare(s, header) == [section |-> s, length |-> header, pieces |-> <<>>]

\* An empty line between a chunk and the piece that is added to it.
Extended(c, p) ==
    [section |-> c.section, length |-> c.length + 2 + p.length,
     pieces |-> Append(c.pieces, p)]

-----------------------------------------------------------------------------

Init ==
    /\ resume \in Resumes
    /\ pc = "section"
    /\ sec = 1 /\ blk = 1 /\ snt = 1 /\ wrd = 1 /\ taken = 0
    /\ piece = Nothing /\ pieces = <<>>
    /\ content = Bare(1, SummaryHeader)
    /\ contents = <<>> /\ drafts = <<>>

\* _pack_blocks begins with the header of the next section.
BeginSection ==
    /\ pc = "section"
    /\ sec <= Len(Sections(resume))
    /\ pc' = "block"
    /\ blk' = 1
    /\ content' = Bare(sec, Header)
    /\ contents' = <<>>
    /\ UNCHANGED <<resume, sec, snt, wrd, taken, piece, pieces, drafts>>

\* After the last section, chunk() numbers the drafts and returns them.
Return ==
    /\ pc = "section"
    /\ sec > Len(Sections(resume))
    /\ pc' = "done"
    /\ UNCHANGED <<resume, place, piece, pieces, packed>>

\* _split_block: a block that fits is one piece, as it stands.
WholeBlock ==
    /\ pc = "block"
    /\ blk <= Len(Section.blocks)
    /\ Block.length <= Limit
    /\ pc' = "pack"
    /\ pieces' = <<Piece(Block.length, BlockText(blk, Block))>>
    /\ UNCHANGED <<resume, place, piece, packed>>

LongBlock ==
    /\ pc = "block"
    /\ blk <= Len(Section.blocks)
    /\ Block.length > Limit
    /\ pc' = "split"
    /\ snt' = 1
    /\ UNCHANGED <<resume, sec, blk, wrd, taken, piece, pieces, packed>>

\* After the last block, _section_drafts takes what _pack_blocks returns.
EndSection ==
    /\ pc = "block"
    /\ blk > Len(Section.blocks)
    /\ pc' = "section"
    /\ drafts' = drafts \o Append(contents, content)
    /\ sec' = sec + 1
    /\ UNCHANGED <<resume, blk, snt, wrd, taken, piece, pieces, content, contents>>

\* The next part of a text joins the current piece, or starts another one.
Take(p) ==
    IF Joined(piece, p).length <= Limit
    THEN piece' = Joined(piece, p) /\ UNCHANGED pieces
    ELSE piece' = p /\ pieces' = Append(pieces, piece)

TakeSentence ==
    /\ pc = "split"
    /\ snt <= Len(Block.sentences)
    /\ Sentence.length <= Limit
    /\ Take(Piece(Sentence.length, SentenceText(blk, snt, Sentence)))
    /\ snt' = snt + 1
    /\ UNCHANGED <<resume, pc, sec, blk, wrd, taken, packed>>

LongSentence ==
    /\ pc = "split"
    /\ snt <= Len(Block.sentences)
    /\ Sentence.length > Limit
    /\ pc' = "words"
    /\ pieces' = Flushed(pieces, piece)
    /\ piece' = Nothing
    /\ wrd' = 1
    /\ taken' = 0
    /\ UNCHANGED <<resume, sec, blk, snt, packed>>

EndBlock ==
    /\ pc = "split"
    /\ snt > Len(Block.sentences)
    /\ pc' = "pack"
    /\ pieces' = Flushed(pieces, piece)
    /\ piece' = Nothing
    /\ UNCHANGED <<resume, place, packed>>

\* What is left of the word in hand.
Rest == Word - taken

\* Mutant of CutWord: the piece in hand is put behind what is cut off.
CutWordFirst ==
    /\ pc = "words"
    /\ wrd <= Len(Sentence.words)
    /\ Rest > Limit
    /\ pieces' = Flushed(Append(pieces,
                         Piece(Limit, WordPart(blk, snt, wrd, taken, taken + Limit))),
                         piece)
    /\ piece' = Nothing
    /\ taken' = taken + Limit
    /\ UNCHANGED <<resume, pc, sec, blk, snt, wrd, packed>>

\* The while loop of _split_words: the first Limit characters of what is left.
CutWord ==
    /\ pc = "words"
    /\ wrd <= Len(Sentence.words)
    /\ Rest > Limit
    /\ pieces' = Append(Flushed(pieces, piece),
                        Piece(Limit, WordPart(blk, snt, wrd, taken, taken + Limit)))
    /\ piece' = Nothing
    /\ taken' = taken + Limit
    /\ UNCHANGED <<resume, pc, sec, blk, snt, wrd, packed>>

TakeWord ==
    /\ pc = "words"
    /\ wrd <= Len(Sentence.words)
    /\ Rest <= Limit
    /\ Take(Piece(Rest, WordPart(blk, snt, wrd, taken, Word)))
    /\ wrd' = wrd + 1
    /\ taken' = 0
    /\ UNCHANGED <<resume, pc, sec, blk, snt, packed>>

EndSentence ==
    /\ pc = "words"
    /\ wrd > Len(Sentence.words)
    /\ pc' = "split"
    /\ pieces' = Flushed(pieces, piece)
    /\ piece' = Nothing
    /\ snt' = snt + 1
    /\ UNCHANGED <<resume, sec, blk, wrd, taken, packed>>

\* Mutant of Pack: the empty line between two pieces is not counted.
PackUncounted ==
    /\ pc = "pack"
    /\ pieces # <<>>
    /\ pieces' = Tail(pieces)
    /\ IF content.length + Head(pieces).length <= MaxCharacters
       THEN /\ content' = Extended(content, Head(pieces))
            /\ UNCHANGED contents
       ELSE /\ contents' = Append(contents, content)
            /\ content' = Extended(Bare(sec, Header), Head(pieces))
    /\ UNCHANGED <<resume, pc, place, piece, drafts>>

\* Mutant of Pack: a chunk may not be as long as the limit.
PackBelow ==
    /\ pc = "pack"
    /\ pieces # <<>>
    /\ pieces' = Tail(pieces)
    /\ IF Extended(content, Head(pieces)).length < MaxCharacters
       THEN /\ content' = Extended(content, Head(pieces))
            /\ UNCHANGED contents
       ELSE /\ contents' = Append(contents, content)
            /\ content' = Extended(Bare(sec, Header), Head(pieces))
    /\ UNCHANGED <<resume, pc, place, piece, drafts>>

\* The inner loop of _pack_blocks.
Pack ==
    /\ pc = "pack"
    /\ pieces # <<>>
    /\ pieces' = Tail(pieces)
    /\ IF Extended(content, Head(pieces)).length <= MaxCharacters
       THEN /\ content' = Extended(content, Head(pieces))
            /\ UNCHANGED contents
       ELSE /\ contents' = Append(contents, content)
            /\ content' = Extended(Bare(sec, Header), Head(pieces))
    /\ UNCHANGED <<resume, pc, place, piece, drafts>>

NextBlock ==
    /\ pc = "pack"
    /\ pieces = <<>>
    /\ pc' = "block"
    /\ blk' = blk + 1
    /\ UNCHANGED <<resume, sec, snt, wrd, taken, piece, pieces, packed>>

Done ==
    /\ pc = "done"
    /\ UNCHANGED vars

Next ==
    \/ BeginSection \/ Return
    \/ WholeBlock \/ LongBlock \/ EndSection
    \/ TakeSentence \/ LongSentence \/ EndBlock
    \/ CutWord \/ TakeWord \/ EndSentence
    \/ Pack \/ NextBlock
    \/ Done

Spec == Init /\ [][Next]_vars

-----------------------------------------------------------------------------
(* Properties.                                                             *)

Places == Nat \X Nat \X Nat \X Nat
Pieces == [length : Nat, text : SUBSET Places]
Chunks == [section : Nat, length : Nat, pieces : Seq(Pieces)]

PCs == {"section", "block", "split", "words", "pack", "done"}

\* Every variable has its type, and the loops stay within what they run over.
TypeOK ==
    /\ resume \in ResumeRecords
    /\ pc \in PCs
    /\ sec \in 1 .. Len(Sections(resume)) + 1
    /\ blk \in Positive /\ snt \in Positive /\ wrd \in Positive /\ taken \in Nat
    /\ pc \in {"block", "split", "words", "pack"} => sec <= Len(Sections(resume))
    /\ pc = "block" => blk <= Len(Section.blocks) + 1
    /\ pc \in {"split", "words", "pack"} => blk <= Len(Section.blocks)
    /\ pc = "split" => snt <= Len(Block.sentences) + 1
    /\ pc = "words" => snt <= Len(Block.sentences) /\ wrd <= Len(Sentence.words) + 1
    /\ piece \in Pieces /\ pieces \in Seq(Pieces)
    /\ content \in Chunks /\ contents \in Seq(Chunks) /\ drafts \in Seq(Chunks)

\* The chunks that are complete.
Complete == Range(drafts) \cup Range(contents)

HasRoom(header) == header + 3 <= MaxCharacters

SectionOf(c) == Sections(resume)[c.section]

\* No chunk is longer than the limit, unless its header alone (with an empty
\* line and one character) is.  _split_block cuts for the room beside the
\* header, _pack_blocks adds pieces up to the limit, and both count the
\* separators by themselves.
WithinLimit == \A c \in Complete : HasRoom(SectionOf(c).header) => c.length <= MaxCharacters

\* No complete chunk is a header alone, unless its section has no block or its header
\* has no room: the first piece of a section always fits beside the header,
\* so that "candidate does not fit" never pushes the bare header out.
NoBareChunk ==
    \A c \in Complete :
        c.pieces = <<>> =>
            SectionOf(c).blocks = <<>> \/ ~HasRoom(SectionOf(c).header)

\* A sentence is cut only when it does not fit beside the header, and a word
\* only when it does not.
Unbroken(section, p) ==
    \A x \in p.text :
        LET sentence == section.blocks[x[1]].sentences[x[2]]
            Fits(length) == section.header + 2 + length <= MaxCharacters
        IN  /\ Fits(sentence.length) => SentenceText(x[1], x[2], sentence) \subseteq p.text
            /\ Fits(sentence.words[x[3]]) =>
                   WordText(x[1], x[2], x[3], sentence.words[x[3]]) \subseteq p.text

CutsAreForced ==
    \A c \in Complete : \A p \in Range(c.pieces) : Unbroken(SectionOf(c), p)

\* No piece is empty: each turn of the while loop of _split_words cuts
\* something off (the limit is at least 1, whatever the header), and what the
\* loops append without asking whether it is empty never is.
NoEmptyPiece == \A p \in Range(pieces) : p.length > 0 /\ p.text # {}

\* Neither a chunk nor a piece is without text.
NothingEmpty == NoBareChunk /\ NoEmptyPiece

\* All characters of a section, when it has been cut, are in its chunks.
TextOf(s) ==
    LET blocks == Sections(resume)[s].blocks
    IN  UNION {BlockText(b, blocks[b]) : b \in DOMAIN blocks}

PackedText(s) ==
    UNION {UNION {p.text : p \in Range(c.pieces)} :
              c \in {c \in Range(drafts) : c.section = s}}

NothingLost == \A s \in 1 .. sec - 1 : PackedText(s) = TextOf(s)

\* Of two characters, which one comes first in the text.
Before(x, y) ==
    \E i \in 1..4 : x[i] < y[i] /\ \A j \in 1 .. i - 1 : x[j] = y[j]

AllBefore(p, q) == \A x \in p.text, y \in q.text : Before(x, y)

\* The pieces of a section, in its chunks and within them, follow the text,
\* and no character is in two of them.
InOrder ==
    \A k \in DOMAIN drafts : \A i \in DOMAIN drafts[k].pieces :
        /\ \A j \in i + 1 .. Len(drafts[k].pieces) :
               AllBefore(drafts[k].pieces[i], drafts[k].pieces[j])
        /\ \A l \in k + 1 .. Len(drafts) :
               drafts[l].section = drafts[k].section =>
                   \A j \in DOMAIN drafts[l].pieces :
                       AllBefore(drafts[k].pieces[i], drafts[l].pieces[j])

\* ResumeChunker only divides a text: the chunks of a section that has been cut
\* hold every character of it once, in the order of the text.  The four places
\* where an unfinished piece is flushed must neither lose nor swap one.
TextIsKept == NothingLost /\ InOrder
=============================================================================
