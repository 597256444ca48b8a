-------------------------- MODULE Chunking_proofs --------------------------
(***************************************************************************)
(* Theorems about Chunking, for every limit and every set of resumes, and  *)
(* about Indexing, for every dimension and size of the batches.            *)
(***************************************************************************)
EXTENDS Indexing, FiniteSetTheorems, SequenceTheorems, TLAPS

\* A piece of the section that fits beside its header.
Fine(section, p) ==
    /\ p \in Pieces
    /\ p.length > 0 /\ p.length <= Available(section.header)
    /\ p.text # {}
    /\ Unbroken(section, p)

\* A chunk of the section: within the limit if there is room, and as long as
\* the header if it has no piece.
Sound(section, c) ==
    /\ HasRoom(section.header) => c.length <= MaxCharacters
    /\ c.pieces = <<>> => c.length = section.header
    /\ \A p \in Range(c.pieces) : Unbroken(section, p)

PiecesFit ==
    /\ \A p \in Range(pieces) : Fine(Section, p)
    /\ piece = Nothing \/ Fine(Section, piece)

\* Outside the loops that use them, there are no pieces.
NoneLeft ==
    /\ pc \in {"section", "block", "done"} => pieces = <<>>
    /\ pc \notin {"split", "words"} => piece = Nothing

\* Only long sentences are split at their words, and only long words are cut.
LongOnly ==
    pc = "words" =>
        /\ Sentence.length > Limit
        /\ wrd <= Len(Sentence.words) =>
               taken < Word /\ (taken > 0 => Word > Limit)

\* What has been split has left a piece.
HasPiece == pieces # <<>> \/ piece # Nothing

LeavesPiece ==
    /\ pc = "split" /\ snt > 1 => HasPiece
    /\ pc = "words" /\ (snt > 1 \/ wrd > 1) => HasPiece
    /\ pc = "pack" => pieces # <<>> \/ content.pieces # <<>>
    /\ pc \in {"block", "split", "words"} /\ blk > 1 => content.pieces # <<>>

ChunksFit ==
    /\ \A c \in Complete : c.section \in DOMAIN Sections(resume) /\ Sound(SectionOf(c), c)
    /\ pc \in {"block", "split", "words", "pack"} =>
           content.section = sec /\ Sound(Section, content)

IInv == TypeOK /\ PiecesFit /\ NoneLeft /\ LongOnly /\ LeavesPiece /\ ChunksFit /\ NoBareChunk

-----------------------------------------------------------------------------
(* The elements of sequences.                                              *)

LEMMA RangeEmpty == Range(<<>>) = {}
  BY DEF Range

LEMMA RangeSingle ==
    ASSUME NEW e
    PROVE  Range(<<e>>) = {e}
  BY DEF Range

LEMMA RangeConcat ==
    ASSUME NEW S, NEW s \in Seq(S), NEW t \in Seq(S)
    PROVE  Range(s \o t) = Range(s) \cup Range(t)
  <1> DEFINE all == s \o t
  <1>1. \A i \in DOMAIN all :
          \/ i \in DOMAIN s /\ all[i] = s[i]
          \/ i - Len(s) \in DOMAIN t /\ all[i] = t[i - Len(s)]
    OBVIOUS
  <1>2. \A i \in DOMAIN s : i \in DOMAIN all /\ all[i] = s[i]
    OBVIOUS
  <1>3. \A i \in DOMAIN t : i + Len(s) \in DOMAIN all /\ all[i + Len(s)] = t[i]
    OBVIOUS
  <1> HIDE DEF all
  <1>4. Range(all) = Range(s) \cup Range(t)
    <2>1. \A x \in Range(all) : x \in Range(s) \cup Range(t)
      BY <1>1 DEF Range
    <2>2. \A x \in Range(s) : x \in Range(all)
      BY <1>2, Zenon DEF Range
    <2>3. \A x \in Range(t) : x \in Range(all)
      BY <1>3, Zenon DEF Range
    <2>4. QED BY <2>1, <2>2, <2>3
  <1>5. QED BY <1>4 DEF all

LEMMA RangeAppend ==
    ASSUME NEW S, NEW s \in Seq(S), NEW e \in S
    PROVE  Range(Append(s, e)) = Range(s) \cup {e}
  <1> DEFINE all == Append(s, e)
  <1>1. \A i \in DOMAIN all : (i \in DOMAIN s /\ all[i] = s[i]) \/ all[i] = e
    OBVIOUS
  <1>2. \A i \in DOMAIN s : i \in DOMAIN all /\ all[i] = s[i]
    OBVIOUS
  <1>3. Len(s) + 1 \in DOMAIN all /\ all[Len(s) + 1] = e
    OBVIOUS
  <1> HIDE DEF all
  <1>4. Range(all) = Range(s) \cup {e}
    BY <1>1, <1>2, <1>3, Zenon DEF Range
  <1>5. QED BY <1>4 DEF all

LEMMA RangeTail ==
    ASSUME NEW S, NEW s \in Seq(S), s # <<>>
    PROVE  /\ Tail(s) \in Seq(S)
           /\ Head(s) \in Range(s)
           /\ Range(Tail(s)) \subseteq Range(s)
  <1>1. Tail(s) \in Seq(S) /\ 1 \in DOMAIN s /\ Head(s) = s[1]
    OBVIOUS
  <1>2. \A i \in DOMAIN Tail(s) : i + 1 \in DOMAIN s /\ Tail(s)[i] = s[i + 1]
    OBVIOUS
  <1>3. QED BY <1>1, <1>2 DEF Range

-----------------------------------------------------------------------------
(* The texts of a section.                                                 *)

LEMMA SectionsTyped ==
    ASSUME NEW r \in ResumeRecords
    PROVE  /\ Sections(r) \in Seq(Entries)
           /\ \A s \in DOMAIN Sections(r) : Sections(r)[s] \in Entries
           /\ DOMAIN Sections(r) = 1 .. Len(Sections(r))
           /\ Len(Sections(r)) \in Nat
  <1>1. <<[header |-> SummaryHeader, blocks |-> r.summary]>> \in Seq(Entries)
    <2>1. [header |-> SummaryHeader, blocks |-> r.summary] \in Entries
      BY ChunkingAssumption DEF ResumeRecords, Entries
    <2>2. QED BY <2>1
  <1>2. r.entries \in Seq(Entries)
    BY DEF ResumeRecords
  <1>3. <<[header |-> SkillsHeader, blocks |-> r.skills]>> \in Seq(Entries)
    <2>1. [header |-> SkillsHeader, blocks |-> r.skills] \in Entries
      BY ChunkingAssumption DEF ResumeRecords, Entries
    <2>2. QED BY <2>1
  <1>4. Sections(r) \in Seq(Entries)
    BY <1>1, <1>2, <1>3 DEF Sections
  <1>5. QED BY <1>4

LEMMA SeqElements ==
    ASSUME NEW S, NEW q \in Seq(S), NEW i \in DOMAIN q
    PROVE  i \in Positive /\ q[i] \in S
  BY DEF Positive

LEMMA BlockTyped ==
    ASSUME NEW section \in Entries, NEW b \in DOMAIN section.blocks
    PROVE  /\ section.header \in Positive
           /\ b \in Positive
           /\ section.blocks[b] \in Blocks
           /\ section.blocks[b].length \in Positive
           /\ section.blocks[b].sentences \in Seq(Sentences)
           /\ section.blocks[b].sentences # <<>>
  <1>1. section.header \in Positive /\ section.blocks \in Seq(Blocks)
    BY DEF Entries
  <1>2. b \in Positive /\ section.blocks[b] \in Blocks
    BY <1>1, SeqElements
  <1>3. QED BY <1>1, <1>2 DEF Blocks, Some

LEMMA SentenceTyped ==
    ASSUME NEW block \in Blocks, NEW s \in DOMAIN block.sentences
    PROVE  /\ s \in Positive
           /\ block.sentences[s] \in Sentences
           /\ block.sentences[s].length \in Positive
           /\ block.sentences[s].words \in Seq(Positive)
           /\ block.sentences[s].words # <<>>
           /\ \A w \in DOMAIN block.sentences[s].words :
                w \in Positive /\ block.sentences[s].words[w] \in Positive
  <1>1. block.sentences \in Seq(Sentences)
    BY DEF Blocks, Some
  <1>2. s \in Positive /\ block.sentences[s] \in Sentences
    BY <1>1, SeqElements
  <1>3. /\ block.sentences[s].length \in Positive
        /\ block.sentences[s].words \in Seq(Positive)
        /\ block.sentences[s].words # <<>>
    BY <1>2 DEF Sentences, Some
  <1>4. QED BY <1>2, <1>3, SeqElements

\* The room beside a header is what is left of the limit, or one character.
LEMMA Room ==
    ASSUME NEW h \in Positive
    PROVE  /\ Available(h) \in Positive
           /\ HasRoom(h) => Available(h) = MaxCharacters - h - 2
           /\ \A n \in Positive : h + 2 + n <= MaxCharacters => n <= Available(h)
  BY ChunkingAssumption DEF Available, HasRoom, Positive

LEMMA WordTextTyped ==
    ASSUME NEW b \in Positive, NEW s \in Positive, NEW w \in Positive, NEW n \in Positive
    PROVE  /\ WordText(b, s, w, n) \subseteq Places
           /\ WordText(b, s, w, n) # {}
           /\ \A x \in WordText(b, s, w, n) : x[1] = b /\ x[2] = s /\ x[3] = w
  <1>1. 1 \in 0 + 1 .. n /\ 1..n \subseteq Nat /\ b \in Nat /\ s \in Nat /\ w \in Nat
    BY DEF Positive
  <1>2. \A c \in 0 + 1 .. n : <<b, s, w, c>> \in Places
    BY <1>1 DEF Places
  <1>3. WordText(b, s, w, n) \subseteq Places
    BY <1>2 DEF WordText, WordPart
  <1>4. WordText(b, s, w, n) # {}
    BY <1>1 DEF WordText, WordPart
  <1>5. \A x \in WordText(b, s, w, n) : x[1] = b /\ x[2] = s /\ x[3] = w
    BY DEF WordText, WordPart
  <1>6. QED BY <1>3, <1>4, <1>5

\* The text of a sentence is that of its words, whole.
LEMMA SentenceTextTyped ==
    ASSUME NEW b \in Positive, NEW s \in Positive, NEW sentence \in Sentences
    PROVE  /\ SentenceText(b, s, sentence) \subseteq Places
           /\ SentenceText(b, s, sentence) # {}
           /\ \A x \in SentenceText(b, s, sentence) :
                /\ x[1] = b /\ x[2] = s
                /\ WordText(b, s, x[3], sentence.words[x[3]])
                     \subseteq SentenceText(b, s, sentence)
  <1>1. \A w \in DOMAIN sentence.words : w \in Positive /\ sentence.words[w] \in Positive
    BY SeqElements DEF Sentences, Some
  <1>2. 1 \in DOMAIN sentence.words
    BY DEF Sentences, Some
  <1>3. \A w \in DOMAIN sentence.words :
          /\ WordText(b, s, w, sentence.words[w]) \subseteq Places
          /\ WordText(b, s, w, sentence.words[w]) # {}
          /\ \A x \in WordText(b, s, w, sentence.words[w]) : x[1] = b /\ x[2] = s /\ x[3] = w
    BY <1>1, WordTextTyped
  <1>4. QED BY <1>2, <1>3 DEF SentenceText

LEMMA BlockTextTyped ==
    ASSUME NEW b \in Positive, NEW block \in Blocks
    PROVE  /\ BlockText(b, block) \subseteq Places
           /\ BlockText(b, block) # {}
           /\ \A x \in BlockText(b, block) :
                LET sentence == block.sentences[x[2]]
                IN  /\ x[1] = b
                    /\ SentenceText(b, x[2], sentence) \subseteq BlockText(b, block)
                    /\ WordText(b, x[2], x[3], sentence.words[x[3]]) \subseteq BlockText(b, block)
  <1> DEFINE text == [s \in DOMAIN block.sentences |-> SentenceText(b, s, block.sentences[s])]
  <1>1. \A s \in DOMAIN block.sentences : s \in Positive /\ block.sentences[s] \in Sentences
    BY SentenceTyped
  <1>2. 1 \in DOMAIN block.sentences
    BY DEF Blocks, Some
  <1>3. \A s \in DOMAIN block.sentences :
          /\ text[s] \subseteq Places
          /\ text[s] # {}
          /\ \A x \in text[s] :
               /\ x[1] = b /\ x[2] = s
               /\ WordText(b, s, x[3], block.sentences[s].words[x[3]]) \subseteq text[s]
    BY <1>1, SentenceTextTyped
  <1>4. BlockText(b, block) = UNION {text[s] : s \in DOMAIN block.sentences}
    BY DEF BlockText
  <1> HIDE DEF text
  <1>5. BlockText(b, block) \subseteq Places /\ BlockText(b, block) # {}
    <2>1. BlockText(b, block) \subseteq Places
      BY <1>3, <1>4
    <2>2. \E x : x \in text[1]
      BY <1>2, <1>3
    <2>3. \E x : x \in BlockText(b, block)
      BY <1>2, <1>4, <2>2
    <2>4. QED BY <2>1, <2>3
  <1>6. ASSUME NEW x \in BlockText(b, block)
        PROVE  /\ x[1] = b
               /\ SentenceText(b, x[2], block.sentences[x[2]]) \subseteq BlockText(b, block)
               /\ WordText(b, x[2], x[3], block.sentences[x[2]].words[x[3]])
                    \subseteq BlockText(b, block)
    <2>1. PICK s \in DOMAIN block.sentences : x \in text[s]
      BY <1>4, Zenon
    <2>2. x[1] = b /\ x[2] = s
      BY <1>3, <2>1
    <2>3. text[s] \subseteq BlockText(b, block)
      BY <1>4
    <2>4. WordText(b, s, x[3], block.sentences[s].words[x[3]]) \subseteq text[s]
      BY <1>3, <2>1
    <2>5. text[s] = SentenceText(b, s, block.sentences[s])
      BY DEF text
    <2>6. QED BY <2>2, <2>3, <2>4, <2>5
  <1>7. QED BY <1>5, <1>6

-----------------------------------------------------------------------------
(* The pieces that the splitting makes are fine.                           *)

LEMMA FineBlock ==
    ASSUME NEW section \in Entries, NEW b \in DOMAIN section.blocks,
           section.blocks[b].length <= Available(section.header)
    PROVE  Fine(section, Piece(section.blocks[b].length, BlockText(b, section.blocks[b])))
  <1> DEFINE block == section.blocks[b]
  <1>1. b \in Positive /\ block \in Blocks /\ block.length \in Positive
    BY BlockTyped
  <1>2. BlockText(b, block) \subseteq Places /\ BlockText(b, block) # {}
    BY <1>1, BlockTextTyped
  <1>3. Unbroken(section, Piece(block.length, BlockText(b, block)))
    BY <1>1, BlockTextTyped DEF Unbroken, Piece
  <1>4. QED BY <1>1, <1>2, <1>3 DEF Fine, Piece, Pieces, Positive

LEMMA FineSentence ==
    ASSUME NEW section \in Entries, NEW b \in DOMAIN section.blocks,
           NEW s \in DOMAIN section.blocks[b].sentences,
           section.blocks[b].sentences[s].length <= Available(section.header)
    PROVE  LET sentence == section.blocks[b].sentences[s]
           IN  Fine(section, Piece(sentence.length, SentenceText(b, s, sentence)))
  <1> DEFINE sentence == section.blocks[b].sentences[s]
  <1>1. b \in Positive /\ section.blocks[b] \in Blocks
    BY BlockTyped
  <1>2. s \in Positive /\ sentence \in Sentences /\ sentence.length \in Positive
    BY <1>1, SentenceTyped, Zenon
  <1>a. sentence = section.blocks[b].sentences[s]
    OBVIOUS
  <1> HIDE DEF sentence
  <1>3. SentenceText(b, s, sentence) \subseteq Places /\ SentenceText(b, s, sentence) # {}
    BY <1>1, <1>2, SentenceTextTyped
  <1>4. Unbroken(section, Piece(sentence.length, SentenceText(b, s, sentence)))
    BY <1>1, <1>2, <1>a, SentenceTextTyped DEF Unbroken, Piece
  <1>5. QED BY <1>2, <1>3, <1>4, <1>a DEF Fine, Piece, Pieces, Positive

\* A part of a word of a sentence that does not fit: the word does not fit, or
\* the part is all of it.
LEMMA FinePart ==
    ASSUME NEW section \in Entries, NEW b \in DOMAIN section.blocks,
           NEW s \in DOMAIN section.blocks[b].sentences,
           NEW sentence, sentence = section.blocks[b].sentences[s],
           NEW w \in DOMAIN sentence.words,
           NEW word, word = sentence.words[w],
           NEW from \in Nat, NEW to \in Nat, from < to,
           to - from <= Available(section.header),
           sentence.length > Available(section.header),
           word > Available(section.header) \/ (from = 0 /\ to = word)
    PROVE  Fine(section, Piece(to - from, WordPart(b, s, w, from, to)))
  <1> DEFINE text == WordPart(b, s, w, from, to)
  <1>1. b \in Positive /\ section.blocks[b] \in Blocks /\ section.header \in Positive
    BY BlockTyped
  <1>2. s \in Positive /\ sentence \in Sentences /\ sentence.length \in Positive
    BY <1>1, SentenceTyped, Zenon
  <1>3. w \in Positive /\ word \in Positive
    BY <1>1, SentenceTyped, Zenon
  <1>4. text \subseteq Places
    BY <1>1, <1>2, <1>3 DEF WordPart, Places, Positive
  <1>5. <<b, s, w, to>> \in text
    BY DEF WordPart
  <1>6. \A x \in text : x[1] = b /\ x[2] = s /\ x[3] = w
    BY DEF WordPart
  <1>7. ~(section.header + 2 + sentence.length <= MaxCharacters)
    BY <1>1, <1>2, Room, ChunkingAssumption DEF Positive
  <1>8. section.header + 2 + word <= MaxCharacters => WordText(b, s, w, word) \subseteq text
    BY <1>1, <1>3, Room, ChunkingAssumption DEF WordText, WordPart, Positive
  <1>9. Unbroken(section, Piece(to - from, text))
    BY <1>6, <1>7, <1>8 DEF Unbroken, Piece
  <1>10. to - from \in Nat /\ to - from > 0
    OBVIOUS
  <1>11. QED BY <1>4, <1>5, <1>9, <1>10 DEF Fine, Piece, Pieces

LEMMA FineJoined ==
    ASSUME NEW section, NEW p, NEW q, Fine(section, p), Fine(section, q),
           Joined(p, q).length <= Available(section.header)
    PROVE  Fine(section, Joined(p, q))
  <1>1. Unbroken(section, Joined(p, q))
    BY DEF Fine, Unbroken, Joined, Piece
  <1>2. QED BY <1>1 DEF Fine, Pieces, Joined, Piece

LEMMA JoinedNothing ==
    ASSUME NEW q \in Pieces
    PROVE  Joined(Nothing, q) = q
  BY DEF Joined, Nothing, Piece, Pieces

\* What flushing and taking do to fine pieces.
LEMMA FlushedFine ==
    ASSUME NEW section, NEW ps \in Seq(Pieces), NEW p,
           \A x \in Range(ps) : Fine(section, x), p = Nothing \/ Fine(section, p)
    PROVE  /\ Flushed(ps, p) \in Seq(Pieces)
           /\ \A x \in Range(Flushed(ps, p)) : Fine(section, x)
           /\ ps # <<>> \/ p # Nothing => Flushed(ps, p) # <<>>
  <1>1. CASE p = Nothing
    BY <1>1 DEF Flushed, Nothing, Piece
  <1>2. CASE Fine(section, p)
    <2>1. p.length > 0 /\ p \in Pieces
      BY <1>2 DEF Fine
    <2>2. Flushed(ps, p) = Append(ps, p)
      BY <2>1 DEF Flushed
    <2>3. QED BY <1>2, <2>1, <2>2, RangeAppend
  <1>3. QED BY <1>1, <1>2

LEMMA TakeFine ==
    ASSUME pieces \in Seq(Pieces), PiecesFit, NEW p, Fine(Section, p), Take(p)
    PROVE  /\ pieces' \in Seq(Pieces)
           /\ \A x \in Range(pieces') : Fine(Section, x)
           /\ piece' \in Pieces
           /\ Fine(Section, piece')
           /\ piece' # Nothing
  <1>1. p \in Pieces /\ p.length <= Limit
    BY DEF Fine, Limit, Header
  <1>2. CASE piece = Nothing
    BY <1>1, <1>2, JoinedNothing DEF Take, PiecesFit, Fine, Nothing, Piece
  <1>3. CASE Fine(Section, piece)
    <2>1. piece \in Pieces
      BY <1>3 DEF Fine
    <2>2. CASE Joined(piece, p).length <= Limit
      <3>1. Fine(Section, Joined(piece, p))
        BY <1>3, <2>2, FineJoined DEF Limit, Header
      <3>2. piece' = Joined(piece, p) /\ pieces' = pieces
        BY <2>2 DEF Take
      <3>3. QED BY <3>1, <3>2 DEF PiecesFit, Fine, Nothing, Piece
    <2>3. CASE ~(Joined(piece, p).length <= Limit)
      <3>1. piece' = p /\ pieces' = Append(pieces, piece)
        BY <2>3 DEF Take
      <3>2. QED BY <1>1, <1>3, <2>1, <3>1, RangeAppend DEF PiecesFit, Fine, Nothing, Piece
    <2>4. QED BY <2>2, <2>3
  <1>4. QED BY <1>2, <1>3 DEF PiecesFit

-----------------------------------------------------------------------------
(* The steps.                                                              *)

InSection == pc \in {"block", "split", "words", "pack"}

LEMMA InHand ==
    ASSUME TypeOK, InSection
    PROVE  /\ sec \in DOMAIN Sections(resume)
           /\ Section \in Entries
           /\ Section.blocks \in Seq(Blocks)
           /\ Header \in Positive
           /\ Limit \in Positive
           /\ Limit = Available(Section.header)
  <1>1. sec \in DOMAIN Sections(resume) /\ Section \in Entries
    BY SectionsTyped DEF TypeOK, InSection, Section, Positive
  <1>2. Header \in Positive /\ Section.blocks \in Seq(Blocks)
    BY <1>1 DEF Header, Entries
  <1>3. QED BY <1>1, <1>2, Room DEF Limit, Header

LEMMA BlockInHand ==
    ASSUME TypeOK, InSection, blk \in DOMAIN Section.blocks
    PROVE  /\ Block \in Blocks
           /\ Block.length \in Positive
           /\ Block.sentences \in Seq(Sentences)
           /\ Block.sentences # <<>>
  BY InHand, BlockTyped DEF Block

LEMMA SentenceInHand ==
    ASSUME TypeOK, InSection, blk \in DOMAIN Section.blocks, snt \in DOMAIN Block.sentences
    PROVE  /\ Sentence \in Sentences
           /\ Sentence.length \in Positive
           /\ Sentence.words \in Seq(Positive)
           /\ Sentence.words # <<>>
           /\ \A w \in DOMAIN Sentence.words : Sentence.words[w] \in Positive
  BY BlockInHand, SentenceTyped DEF Sentence

LEMMA InitInv == Init => IInv
  <1> SUFFICES ASSUME Init PROVE IInv
    OBVIOUS
  <1>1. resume \in ResumeRecords
    BY ChunkingAssumption DEF Init
  <1>2. Len(Sections(resume)) \in Nat
    BY <1>1, SectionsTyped
  <1>3. content \in Chunks
    BY ChunkingAssumption DEF Init, Bare, Chunks, Positive
  <1>4. Nothing \in Pieces
    BY DEF Nothing, Piece, Pieces
  <1>5. TypeOK
    BY <1>1, <1>2, <1>3, <1>4 DEF Init, TypeOK, PCs, Positive
  <1>6. PiecesFit /\ NoneLeft /\ LongOnly /\ LeavesPiece
    BY RangeEmpty DEF Init, PiecesFit, NoneLeft, LongOnly, LeavesPiece
  <1>7. Complete = {}
    BY RangeEmpty DEF Init, Complete
  <1>8. ChunksFit /\ NoBareChunk
    BY <1>7 DEF Init, ChunksFit, NoBareChunk
  <1>9. QED BY <1>5, <1>6, <1>8 DEF IInv

\* Splitting a block leaves the chunks alone.
LEMMA ChunksStay ==
    ASSUME ChunksFit, NoBareChunk, InSection, UNCHANGED <<resume, sec, packed>>
    PROVE  ChunksFit' /\ NoBareChunk'
  BY DEF ChunksFit, NoBareChunk, InSection, packed, Complete, Section, SectionOf

\* Of a block that is being split.
LEMMA SectionStays ==
    ASSUME UNCHANGED <<resume, sec>>
    PROVE  Section' = Section /\ Limit' = Limit /\ Header' = Header
  BY DEF Section, Limit, Header

LEMMA BlockStays ==
    ASSUME UNCHANGED <<resume, sec, blk>>
    PROVE  Section' = Section /\ Limit' = Limit /\ Block' = Block
  BY DEF Section, Limit, Header, Block

LEMMA SentenceStays ==
    ASSUME UNCHANGED <<resume, sec, blk, snt>>
    PROVE  /\ Section' = Section /\ Limit' = Limit
           /\ Block' = Block /\ Sentence' = Sentence
  BY DEF Section, Limit, Header, Block, Sentence

LEMMA BeginSectionInv == ASSUME IInv, BeginSection PROVE IInv'
  <1>1. TypeOK /\ PiecesFit /\ NoneLeft /\ ChunksFit /\ NoBareChunk
    BY DEF IInv
  <1>2. sec \in DOMAIN Sections(resume) /\ Section \in Entries
    BY <1>1, SectionsTyped DEF BeginSection, TypeOK, Section
  <1>3. Header \in Positive /\ Section.blocks \in Seq(Blocks)
    BY <1>2 DEF Header, Entries
  <1>4. Section' = Section /\ Header = Section.header
    BY DEF BeginSection, Section, Header
  <1>5. TypeOK'
    <2>1. content' \in Chunks /\ contents' \in Seq(Chunks)
      BY <1>1, <1>3 DEF BeginSection, Bare, Chunks, TypeOK, Positive
    <2>2. Len(Section.blocks) \in Nat
      BY <1>3
    <2>3. QED BY <1>1, <1>4, <2>1, <2>2 DEF BeginSection, TypeOK, PCs, Positive
  <1>6. PiecesFit' /\ NoneLeft' /\ LongOnly' /\ LeavesPiece'
    BY <1>1, RangeEmpty DEF BeginSection, PiecesFit, NoneLeft, LongOnly, LeavesPiece
  <1>7. Complete' \subseteq Complete
    BY RangeEmpty DEF BeginSection, Complete
  <1>8. Sound(Section, content') /\ content'.section = sec
    BY <1>3, <1>4, ChunkingAssumption, RangeEmpty DEF BeginSection, Sound, Bare, HasRoom, Positive
  <1>9. ChunksFit' /\ NoBareChunk'
    BY <1>1, <1>4, <1>7, <1>8 DEF BeginSection, ChunksFit, NoBareChunk, SectionOf
  <1>10. QED BY <1>5, <1>6, <1>9 DEF IInv

LEMMA ReturnInv == ASSUME IInv, Return PROVE IInv'
  <1>1. /\ TypeOK' /\ NoneLeft'
    BY DEF IInv, Return, TypeOK, NoneLeft, PCs, place, packed
  <1>2. PiecesFit' /\ LongOnly' /\ LeavesPiece'
    BY RangeEmpty DEF IInv, Return, PiecesFit, NoneLeft, LongOnly, LeavesPiece, place, packed
  <1>3. ChunksFit' /\ NoBareChunk'
    BY DEF IInv, Return, ChunksFit, NoBareChunk, Complete, SectionOf, place, packed
  <1>4. QED BY <1>1, <1>2, <1>3 DEF IInv

LEMMA WholeBlockInv == ASSUME IInv, WholeBlock PROVE IInv'
  <1>1. TypeOK /\ PiecesFit /\ NoneLeft /\ ChunksFit /\ NoBareChunk /\ InSection
    BY DEF IInv, WholeBlock, InSection
  <1>2. blk \in DOMAIN Section.blocks
    BY <1>1, InHand DEF WholeBlock, TypeOK, Positive
  <1>3. UNCHANGED <<resume, sec, blk, packed, piece>>
    BY DEF WholeBlock, place
  <1>4. Section' = Section
    BY <1>3, SectionStays
  <1> DEFINE p == Piece(Block.length, BlockText(blk, Block))
  <1>5. Fine(Section, p)
    BY <1>1, <1>2, InHand, FineBlock DEF WholeBlock, Block
  <1>6. p \in Pieces
    BY <1>5 DEF Fine
  <1>7. pieces' = <<p>> /\ piece = Nothing
    BY <1>1 DEF WholeBlock, NoneLeft
  <1> HIDE DEF p
  <1>8. TypeOK'
    BY <1>1, <1>2, <1>4, <1>6, <1>7, InHand DEF WholeBlock, TypeOK, PCs, place, packed
  <1>9. PiecesFit' /\ NoneLeft' /\ LongOnly' /\ LeavesPiece'
    BY <1>3, <1>4, <1>5, <1>7, RangeSingle DEF WholeBlock, PiecesFit, NoneLeft, LongOnly, LeavesPiece
  <1>10. ChunksFit' /\ NoBareChunk'
    BY <1>1, <1>3, ChunksStay
  <1>11. QED BY <1>8, <1>9, <1>10 DEF IInv

LEMMA LongBlockInv == ASSUME IInv, LongBlock PROVE IInv'
  <1>1. TypeOK /\ PiecesFit /\ NoneLeft /\ LeavesPiece /\ ChunksFit /\ NoBareChunk /\ InSection
    BY DEF IInv, LongBlock, InSection
  <1>2. blk \in DOMAIN Section.blocks
    BY <1>1, InHand DEF LongBlock, TypeOK, Positive
  <1>3. Section' = Section /\ Block' = Block
    BY BlockStays DEF LongBlock
  <1>4. TypeOK'
    <2>1. Len(Block.sentences) \in Nat
      BY <1>1, <1>2, BlockInHand
    <2>2. QED
      BY <1>1, <1>2, <1>3, <2>1, InHand DEF LongBlock, TypeOK, PCs, packed, Positive
  <1>5. PiecesFit' /\ NoneLeft' /\ LongOnly' /\ LeavesPiece'
    BY <1>1, <1>3 DEF LongBlock, PiecesFit, NoneLeft, LongOnly, LeavesPiece, packed
  <1>6. ChunksFit' /\ NoBareChunk'
    BY <1>1, ChunksStay DEF LongBlock
  <1>7. QED BY <1>4, <1>5, <1>6 DEF IInv

LEMMA EndSectionInv == ASSUME IInv, EndSection PROVE IInv'
  <1>1. TypeOK /\ PiecesFit /\ NoneLeft /\ LeavesPiece /\ ChunksFit /\ NoBareChunk /\ InSection
    BY DEF IInv, EndSection, InSection
  <1>2. sec \in DOMAIN Sections(resume) /\ Section.blocks \in Seq(Blocks)
    BY <1>1, InHand
  <1>3. TypeOK'
    <2>1. drafts' \in Seq(Chunks)
      BY <1>1 DEF EndSection, TypeOK
    <2>2. sec' \in 1 .. Len(Sections(resume')) + 1
      BY <1>1, <1>2, SectionsTyped DEF EndSection, TypeOK
    <2>3. QED BY <1>1, <2>1, <2>2 DEF EndSection, TypeOK, PCs
  <1>4. PiecesFit' /\ NoneLeft' /\ LongOnly' /\ LeavesPiece'
    BY <1>1, RangeEmpty DEF EndSection, PiecesFit, NoneLeft, LongOnly, LeavesPiece
  <1>5. Complete' = Complete \cup {content}
    <2>1. drafts \in Seq(Chunks) /\ contents \in Seq(Chunks) /\ content \in Chunks
      BY <1>1 DEF TypeOK
    <2>2. Range(Append(contents, content)) = Range(contents) \cup {content}
      BY <2>1, RangeAppend
    <2>3. Append(contents, content) \in Seq(Chunks)
      BY <2>1
    <2>4. Range(drafts') = Range(drafts) \cup Range(Append(contents, content))
      BY <2>1, <2>3, RangeConcat DEF EndSection
    <2>5. QED BY <2>2, <2>4 DEF EndSection, Complete
  <1>6. content.section = sec /\ Sound(Section, content) /\ SectionOf(content) = Section
    BY <1>1 DEF ChunksFit, InSection, SectionOf, Section
  <1>7. content.pieces = <<>> => Section.blocks = <<>>
    BY <1>1, <1>2 DEF EndSection, LeavesPiece, TypeOK, Positive
  <1>8. ChunksFit' /\ NoBareChunk'
    BY <1>1, <1>2, <1>5, <1>6, <1>7 DEF EndSection, ChunksFit, NoBareChunk, SectionOf
  <1>9. QED BY <1>3, <1>4, <1>8 DEF IInv

LEMMA TakeSentenceInv == ASSUME IInv, TakeSentence PROVE IInv'
  <1>1. TypeOK /\ PiecesFit /\ NoneLeft /\ LeavesPiece /\ ChunksFit /\ NoBareChunk /\ InSection
    BY DEF IInv, TakeSentence, InSection
  <1>2. blk \in DOMAIN Section.blocks
    BY <1>1, InHand DEF TakeSentence, TypeOK, Positive
  <1>3. snt \in DOMAIN Block.sentences /\ Len(Block.sentences) \in Nat
    BY <1>1, <1>2, BlockInHand DEF TakeSentence, TypeOK, Positive
  <1>4. Section' = Section /\ Block' = Block
    BY BlockStays DEF TakeSentence
  <1> DEFINE p == Piece(Sentence.length, SentenceText(blk, snt, Sentence))
  <1>5. Fine(Section, p) /\ Take(p)
    BY <1>1, <1>2, <1>3, InHand, FineSentence DEF TakeSentence, Block, Sentence
  <1> HIDE DEF p
  <1>6. /\ pieces' \in Seq(Pieces) /\ piece' \in Pieces
        /\ \A x \in Range(pieces') : Fine(Section, x)
        /\ Fine(Section, piece') /\ piece' # Nothing
    BY <1>1, <1>5, TakeFine DEF TypeOK
  <1>7. TypeOK'
    BY <1>1, <1>2, <1>3, <1>4, <1>6 DEF TakeSentence, TypeOK, PCs, packed, Positive
  <1>8. PiecesFit' /\ NoneLeft' /\ LongOnly' /\ LeavesPiece'
    BY <1>1, <1>4, <1>6
       DEF TakeSentence, PiecesFit, NoneLeft, LongOnly, LeavesPiece, HasPiece, packed
  <1>9. ChunksFit' /\ NoBareChunk'
    BY <1>1, ChunksStay DEF TakeSentence
  <1>10. QED BY <1>7, <1>8, <1>9 DEF IInv

LEMMA LongSentenceInv == ASSUME IInv, LongSentence PROVE IInv'
  <1>1. TypeOK /\ PiecesFit /\ NoneLeft /\ LeavesPiece /\ ChunksFit /\ NoBareChunk /\ InSection
    BY DEF IInv, LongSentence, InSection
  <1>2. blk \in DOMAIN Section.blocks
    BY <1>1, InHand DEF LongSentence, TypeOK, Positive
  <1>3. snt \in DOMAIN Block.sentences
    BY <1>1, <1>2, BlockInHand DEF LongSentence, TypeOK, Positive
  <1>4. Section' = Section /\ Block' = Block /\ Sentence' = Sentence /\ Limit' = Limit
    BY SentenceStays DEF LongSentence
  <1>5. /\ pieces' \in Seq(Pieces)
        /\ \A x \in Range(pieces') : Fine(Section, x)
        /\ HasPiece => pieces' # <<>>
    BY <1>1, FlushedFine DEF LongSentence, TypeOK, PiecesFit, HasPiece
  <1>6. Nothing \in Pieces
    BY DEF Nothing, Piece, Pieces
  <1>7. Len(Sentence.words) \in Nat /\ (1 <= Len(Sentence.words) => Sentence.words[1] \in Positive)
    BY <1>1, <1>2, <1>3, SentenceInHand
  <1>8. TypeOK'
    BY <1>1, <1>2, <1>3, <1>4, <1>5, <1>6, <1>7
       DEF LongSentence, TypeOK, PCs, packed, Positive
  <1>9. LongOnly'
    BY <1>4, <1>7 DEF LongSentence, LongOnly, Word, Positive
  <1>10. PiecesFit' /\ NoneLeft' /\ LeavesPiece'
    BY <1>1, <1>4, <1>5
       DEF LongSentence, PiecesFit, NoneLeft, LeavesPiece, HasPiece, packed
  <1>11. ChunksFit' /\ NoBareChunk'
    BY <1>1, ChunksStay DEF LongSentence
  <1>12. QED BY <1>8, <1>9, <1>10, <1>11 DEF IInv

LEMMA EndBlockInv == ASSUME IInv, EndBlock PROVE IInv'
  <1>1. TypeOK /\ PiecesFit /\ NoneLeft /\ LeavesPiece /\ ChunksFit /\ NoBareChunk /\ InSection
    BY DEF IInv, EndBlock, InSection
  <1>2. blk \in DOMAIN Section.blocks
    BY <1>1, InHand DEF EndBlock, TypeOK, Positive
  <1>3. UNCHANGED <<resume, sec, blk, packed>>
    BY DEF EndBlock, place
  <1>4. Section' = Section
    BY <1>3, SectionStays
  <1>5. /\ pieces' \in Seq(Pieces)
        /\ \A x \in Range(pieces') : Fine(Section, x)
        /\ HasPiece => pieces' # <<>>
    BY <1>1, FlushedFine DEF EndBlock, TypeOK, PiecesFit, HasPiece
  <1>6. snt > 1
    BY <1>1, <1>2, BlockInHand DEF EndBlock, TypeOK, Positive
  <1>7. Nothing \in Pieces
    BY DEF Nothing, Piece, Pieces
  <1>8. TypeOK'
    BY <1>1, <1>4, <1>5, <1>7 DEF EndBlock, TypeOK, PCs, place, packed
  <1>9. PiecesFit' /\ NoneLeft' /\ LongOnly' /\ LeavesPiece'
    BY <1>1, <1>4, <1>5, <1>6
       DEF EndBlock, PiecesFit, NoneLeft, LongOnly, LeavesPiece
  <1>10. ChunksFit' /\ NoBareChunk'
    BY <1>1, <1>3, ChunksStay
  <1>11. QED BY <1>8, <1>9, <1>10 DEF IInv

LEMMA CutWordInv == ASSUME IInv, CutWord PROVE IInv'
  <1>1. /\ TypeOK /\ PiecesFit /\ NoneLeft /\ LongOnly /\ LeavesPiece
        /\ ChunksFit /\ NoBareChunk /\ InSection
    BY DEF IInv, CutWord, InSection
  <1>2. blk \in DOMAIN Section.blocks
    BY <1>1, InHand DEF CutWord, TypeOK, Positive
  <1>3. snt \in DOMAIN Block.sentences
    BY <1>1, <1>2, BlockInHand DEF CutWord, TypeOK, Positive
  <1>4. wrd \in DOMAIN Sentence.words /\ Word \in Positive
    BY <1>1, <1>2, <1>3, SentenceInHand DEF CutWord, TypeOK, Positive, Word
  <1>5. Section' = Section /\ Block' = Block /\ Sentence' = Sentence /\ Limit' = Limit
    BY SentenceStays DEF CutWord
  <1>6. Word' = Word
    BY <1>5 DEF CutWord, Word
  <1>7. /\ taken \in Nat /\ Limit \in Positive /\ Limit = Available(Section.header)
        /\ Word - taken > Limit
    BY <1>1, InHand DEF CutWord, TypeOK, Rest
  <1> DEFINE p == Piece(Limit, WordPart(blk, snt, wrd, taken, taken + Limit))
  <1>8. Fine(Section, p)
    <2> DEFINE to == taken + Limit
    <2>1. to \in Nat /\ taken < to /\ to - taken = Limit
      BY <1>7 DEF Positive
    <2>2. Word > Limit /\ Sentence.length > Limit
      BY <1>1, <1>4, <1>7 DEF LongOnly, CutWord, Positive
    <2> HIDE DEF to
    <2>3. /\ Block = Section.blocks[blk] /\ Sentence = Section.blocks[blk].sentences[snt]
          /\ Word = Sentence.words[wrd] /\ Section \in Entries
      BY <1>1, InHand DEF Block, Sentence, Word
    <2>4. Fine(Section, Piece(to - taken, WordPart(blk, snt, wrd, taken, to)))
      BY <1>2, <1>3, <1>4, <1>7, <2>1, <2>2, <2>3, FinePart
    <2>5. QED BY <2>1, <2>4 DEF to
  <1> HIDE DEF p
  <1>9. p \in Pieces
    BY <1>8 DEF Fine
  <1>10. /\ Flushed(pieces, piece) \in Seq(Pieces)
         /\ \A x \in Range(Flushed(pieces, piece)) : Fine(Section, x)
    BY <1>1, FlushedFine DEF TypeOK, PiecesFit
  <1>11. pieces' = Append(Flushed(pieces, piece), p)
    BY DEF CutWord, p
  <1>12. /\ pieces' \in Seq(Pieces) /\ pieces' # <<>>
         /\ \A x \in Range(pieces') : Fine(Section, x)
    BY <1>8, <1>9, <1>10, <1>11, RangeAppend
  <1>13. Nothing \in Pieces
    BY DEF Nothing, Piece, Pieces
  <1>14. taken' \in Nat
    BY <1>7 DEF CutWord, Positive
  <1>15. TypeOK'
    BY <1>1, <1>5, <1>12, <1>13, <1>14 DEF CutWord, TypeOK, PCs, packed
  <1>16. LongOnly'
    BY <1>1, <1>4, <1>5, <1>6, <1>7 DEF CutWord, LongOnly, Positive
  <1>17. PiecesFit' /\ NoneLeft' /\ LeavesPiece'
    BY <1>1, <1>5, <1>12 DEF CutWord, PiecesFit, NoneLeft, LeavesPiece, HasPiece, packed
  <1>18. ChunksFit' /\ NoBareChunk'
    BY <1>1, ChunksStay DEF CutWord
  <1>19. QED BY <1>15, <1>16, <1>17, <1>18 DEF IInv

LEMMA TakeWordInv == ASSUME IInv, TakeWord PROVE IInv'
  <1>1. /\ TypeOK /\ PiecesFit /\ NoneLeft /\ LongOnly /\ LeavesPiece
        /\ ChunksFit /\ NoBareChunk /\ InSection
    BY DEF IInv, TakeWord, InSection
  <1>2. blk \in DOMAIN Section.blocks
    BY <1>1, InHand DEF TakeWord, TypeOK, Positive
  <1>3. snt \in DOMAIN Block.sentences
    BY <1>1, <1>2, BlockInHand DEF TakeWord, TypeOK, Positive
  <1>4. /\ wrd \in DOMAIN Sentence.words /\ Word \in Positive
        /\ Len(Sentence.words) \in Nat
        /\ \A w \in DOMAIN Sentence.words : Sentence.words[w] \in Positive
        /\ DOMAIN Sentence.words = 1 .. Len(Sentence.words)
    <2>1. /\ Sentence.words \in Seq(Positive)
          /\ \A w \in DOMAIN Sentence.words : Sentence.words[w] \in Positive
      BY <1>1, <1>2, <1>3, SentenceInHand
    <2>2. wrd \in DOMAIN Sentence.words
      BY <1>1, <2>1 DEF TakeWord, TypeOK, Positive
    <2>3. QED BY <2>1, <2>2 DEF Word
  <1>5. Section' = Section /\ Block' = Block /\ Sentence' = Sentence /\ Limit' = Limit
    BY SentenceStays DEF TakeWord
  <1>6. /\ taken \in Nat /\ Limit \in Positive /\ Limit = Available(Section.header)
        /\ taken < Word /\ Word - taken <= Limit
    BY <1>1, InHand DEF TakeWord, TypeOK, Rest, LongOnly
  <1> DEFINE p == Piece(Rest, WordPart(blk, snt, wrd, taken, Word))
  <1>7. Fine(Section, p)
    <2>1. Sentence.length > Limit /\ (Word > Limit \/ taken = 0)
      BY <1>1, <1>6 DEF LongOnly, TakeWord
    <2>2. /\ Block = Section.blocks[blk] /\ Sentence = Section.blocks[blk].sentences[snt]
          /\ Word = Sentence.words[wrd] /\ Section \in Entries /\ Word \in Nat
      BY <1>1, <1>4, InHand DEF Block, Sentence, Word, Positive
    <2>3. Fine(Section, Piece(Word - taken, WordPart(blk, snt, wrd, taken, Word)))
      BY <1>2, <1>3, <1>4, <1>6, <2>1, <2>2, FinePart
    <2>4. QED BY <2>3 DEF Rest
  <1>8. Take(p)
    BY DEF TakeWord
  <1> HIDE DEF p
  <1>9. /\ pieces' \in Seq(Pieces) /\ piece' \in Pieces
        /\ \A x \in Range(pieces') : Fine(Section, x)
        /\ Fine(Section, piece') /\ piece' # Nothing
    BY <1>1, <1>7, <1>8, TakeFine DEF TypeOK
  <1>10. TypeOK'
    BY <1>1, <1>4, <1>5, <1>9 DEF TakeWord, TypeOK, PCs, packed, Positive
  <1>11. LongOnly'
    <2>1. wrd' <= Len(Sentence.words) => wrd' \in DOMAIN Sentence.words
      BY <1>4 DEF TakeWord
    <2>2. wrd' <= Len(Sentence.words) => Word' \in Positive
      BY <1>4, <1>5, <2>1 DEF Word
    <2>3. QED BY <1>1, <1>5, <2>2 DEF TakeWord, LongOnly, Positive
  <1>12. PiecesFit' /\ NoneLeft' /\ LeavesPiece'
    BY <1>1, <1>5, <1>9 DEF TakeWord, PiecesFit, NoneLeft, LeavesPiece, HasPiece, packed
  <1>13. ChunksFit' /\ NoBareChunk'
    BY <1>1, ChunksStay DEF TakeWord
  <1>14. QED BY <1>10, <1>11, <1>12, <1>13 DEF IInv

LEMMA EndSentenceInv == ASSUME IInv, EndSentence PROVE IInv'
  <1>1. TypeOK /\ PiecesFit /\ NoneLeft /\ LeavesPiece /\ ChunksFit /\ NoBareChunk /\ InSection
    BY DEF IInv, EndSentence, InSection
  <1>2. blk \in DOMAIN Section.blocks
    BY <1>1, InHand DEF EndSentence, TypeOK, Positive
  <1>3. snt \in DOMAIN Block.sentences /\ Len(Block.sentences) \in Nat
    BY <1>1, <1>2, BlockInHand DEF EndSentence, TypeOK, Positive
  <1>4. Section' = Section /\ Block' = Block
    BY BlockStays DEF EndSentence
  <1>5. wrd > 1
    BY <1>1, <1>2, <1>3, SentenceInHand DEF EndSentence, TypeOK, Positive
  <1>6. /\ pieces' \in Seq(Pieces)
        /\ \A x \in Range(pieces') : Fine(Section, x)
        /\ HasPiece => pieces' # <<>>
    BY <1>1, FlushedFine DEF EndSentence, TypeOK, PiecesFit, HasPiece
  <1>7. Nothing \in Pieces
    BY DEF Nothing, Piece, Pieces
  <1>8. TypeOK'
    BY <1>1, <1>2, <1>3, <1>4, <1>6, <1>7 DEF EndSentence, TypeOK, PCs, packed, Positive
  <1>9. PiecesFit' /\ NoneLeft' /\ LongOnly' /\ LeavesPiece'
    BY <1>1, <1>4, <1>5, <1>6
       DEF EndSentence, PiecesFit, NoneLeft, LongOnly, LeavesPiece, HasPiece, packed
  <1>10. ChunksFit' /\ NoBareChunk'
    BY <1>1, ChunksStay DEF EndSentence
  <1>11. QED BY <1>8, <1>9, <1>10 DEF IInv

LEMMA PackInv == ASSUME IInv, Pack PROVE IInv'
  <1>1. TypeOK /\ PiecesFit /\ NoneLeft /\ ChunksFit /\ NoBareChunk /\ InSection
    BY DEF IInv, Pack, InSection
  <1>2. UNCHANGED <<resume, pc, sec, blk, snt, wrd, taken, piece, drafts>>
    BY DEF Pack, place
  <1>3. Section' = Section /\ Limit' = Limit
    BY <1>2, SectionStays
  <1> DEFINE p == Head(pieces)
             full == content.length + 2 + p.length > MaxCharacters
  <1>4. pieces \in Seq(Pieces) /\ content \in Chunks /\ contents \in Seq(Chunks)
    BY <1>1 DEF TypeOK
  <1>5. /\ Tail(pieces) \in Seq(Pieces) /\ p \in Range(pieces)
        /\ Range(Tail(pieces)) \subseteq Range(pieces)
    BY <1>4, RangeTail DEF Pack
  <1>6. Fine(Section, p) /\ p \in Pieces
    BY <1>1, <1>5 DEF PiecesFit, Fine
  <1>7. /\ Header \in Positive /\ Header = Section.header
        /\ HasRoom(Header) => p.length <= MaxCharacters - Header - 2
    BY <1>1, <1>6, InHand, Room DEF Header, Fine
  <1>8. /\ content.section = sec /\ Sound(Section, content) /\ sec \in DOMAIN Sections(resume)
        /\ SectionOf(content) = Section
    BY <1>1, InHand DEF ChunksFit, InSection, SectionOf, Section
  <1> HIDE DEF p
  \* Of the content after the step.
  <1>9. /\ content' \in Chunks /\ content'.section = sec /\ content'.pieces # <<>>
        /\ Sound(Section, content')
    <2>1. ASSUME NEW c \in Chunks, c.section = sec, Sound(Section, c),
                 HasRoom(Header) => c.length + 2 + p.length <= MaxCharacters
          PROVE  /\ Extended(c, p) \in Chunks /\ Extended(c, p).section = sec
                 /\ Extended(c, p).pieces # <<>> /\ Sound(Section, Extended(c, p))
      <3>1. c.pieces \in Seq(Pieces) /\ c.length \in Nat /\ p.length \in Nat
        BY <1>6, <2>1 DEF Chunks, Pieces
      <3>2. Append(c.pieces, p) \in Seq(Pieces) /\ Append(c.pieces, p) # <<>>
        BY <1>6, <3>1
      <3>3. Range(Append(c.pieces, p)) = Range(c.pieces) \cup {p}
        BY <1>6, <3>1, RangeAppend
      <3>4. Unbroken(Section, p)
        BY <1>6 DEF Fine
      <3>5. QED BY <1>7, <2>1, <3>1, <3>2, <3>3, <3>4 DEF Extended, Chunks, Sound
    <2>2. CASE ~full
      <3>1. content' = Extended(content, p)
        BY <1>4, <1>6, <2>2, ChunkingAssumption DEF Pack, Extended, p, Chunks, Pieces, Positive
      <3>2. content.length + 2 + p.length <= MaxCharacters
        BY <1>4, <1>6, <2>2, ChunkingAssumption DEF Chunks, Pieces, Positive
      <3>3. QED BY <1>4, <1>8, <2>1, <3>1, <3>2
    <2>3. CASE full
      <3>1. content' = Extended(Bare(sec, Header), p)
        BY <1>4, <1>6, <2>3, ChunkingAssumption DEF Pack, Extended, p, Chunks, Pieces, Positive
      <3>2. /\ Bare(sec, Header) \in Chunks /\ Bare(sec, Header).section = sec
            /\ Bare(sec, Header).length = Header
        <4>1. sec \in Nat
          BY <1>1, <1>8, SectionsTyped DEF TypeOK
        <4>2. <<>> \in Seq(Pieces)
          OBVIOUS
        <4>3. QED BY <1>7, <4>1, <4>2 DEF Bare, Chunks, Positive
      <3>3. Sound(Section, Bare(sec, Header))
        BY <1>7, RangeEmpty, ChunkingAssumption DEF Sound, Bare, HasRoom, Positive
      <3>4. HasRoom(Header) => Header + 2 + p.length <= MaxCharacters
        BY <1>6, <1>7, ChunkingAssumption DEF Pieces, Positive
      <3>5. QED BY <2>1, <3>1, <3>2, <3>3, <3>4
    <2>4. QED BY <2>2, <2>3
  <1>10. contents' \in Seq(Chunks) /\ Complete' \subseteq Complete \cup {content}
    <2>1. Append(contents, content) \in Seq(Chunks)
      BY <1>4
    <2>2. Range(Append(contents, content)) = Range(contents) \cup {content}
      BY <1>4, RangeAppend
    <2>3. contents' = contents \/ contents' = Append(contents, content)
      BY DEF Pack
    <2>4. QED BY <1>2, <1>4, <2>1, <2>2, <2>3 DEF Complete
  \* A chunk that is full is not bare: the first piece fits beside the header.
  <1>11. content \in Complete' \ Complete /\ content.pieces = <<>> => ~HasRoom(Header)
    <2>1. content.pieces = <<>> => content.length = Header
      BY <1>7, <1>8 DEF Sound
    <2>2. contents' # contents => content.length + 2 + p.length > MaxCharacters
      BY <1>4, <1>6, ChunkingAssumption DEF Pack, Extended, p, Chunks, Pieces, Positive
    <2>3. contents' = contents => Complete' = Complete
      BY <1>2 DEF Complete
    <2>4. QED BY <1>6, <1>7, <2>1, <2>2, <2>3, ChunkingAssumption DEF Pieces, Positive
  <1>12. TypeOK'
    BY <1>1, <1>2, <1>3, <1>5, <1>9, <1>10 DEF Pack, TypeOK
  <1>13. PiecesFit' /\ NoneLeft' /\ LongOnly' /\ LeavesPiece'
    BY <1>1, <1>2, <1>3, <1>5, <1>9 DEF Pack, PiecesFit, NoneLeft, LongOnly, LeavesPiece
  <1>14. ChunksFit'
    BY <1>1, <1>2, <1>3, <1>8, <1>9, <1>10 DEF ChunksFit, SectionOf
  <1>15. NoBareChunk'
    BY <1>1, <1>2, <1>7, <1>8, <1>10, <1>11 DEF NoBareChunk, SectionOf
  <1>16. QED BY <1>12, <1>13, <1>14, <1>15 DEF IInv

LEMMA NextBlockInv == ASSUME IInv, NextBlock PROVE IInv'
  <1>1. TypeOK /\ PiecesFit /\ NoneLeft /\ LeavesPiece /\ ChunksFit /\ NoBareChunk /\ InSection
    BY DEF IInv, NextBlock, InSection
  <1>2. Section' = Section /\ Len(Section.blocks) \in Nat
    BY <1>1, InHand, SectionStays DEF NextBlock
  <1>3. TypeOK'
    BY <1>1, <1>2 DEF NextBlock, TypeOK, PCs, packed, Positive
  <1>4. PiecesFit' /\ NoneLeft' /\ LongOnly' /\ LeavesPiece'
    BY <1>1, <1>2 DEF NextBlock, PiecesFit, NoneLeft, LongOnly, LeavesPiece, packed
  <1>5. ChunksFit' /\ NoBareChunk'
    BY <1>1, ChunksStay DEF NextBlock
  <1>6. QED BY <1>3, <1>4, <1>5 DEF IInv

LEMMA StutterInv == ASSUME IInv, UNCHANGED vars PROVE IInv'
  <1>1. TypeOK' /\ PiecesFit' /\ NoneLeft' /\ LongOnly'
    BY DEF IInv, TypeOK, PiecesFit, NoneLeft, LongOnly, vars, place, packed,
           Section, Header, Limit, Block, Sentence, Word
  <1>2. LeavesPiece' /\ ChunksFit' /\ NoBareChunk'
    BY DEF IInv, LeavesPiece, HasPiece, ChunksFit, NoBareChunk, Complete, SectionOf,
           vars, place, packed, Section
  <1>3. QED BY <1>1, <1>2 DEF IInv

LEMMA StepKeeps == ASSUME IInv, [Next]_vars PROVE IInv'
  <1>1. CASE BeginSection BY <1>1, BeginSectionInv
  <1>2. CASE Return BY <1>2, ReturnInv
  <1>3. CASE WholeBlock BY <1>3, WholeBlockInv
  <1>4. CASE LongBlock BY <1>4, LongBlockInv
  <1>5. CASE EndSection BY <1>5, EndSectionInv
  <1>6. CASE TakeSentence BY <1>6, TakeSentenceInv
  <1>7. CASE LongSentence BY <1>7, LongSentenceInv
  <1>8. CASE EndBlock BY <1>8, EndBlockInv
  <1>9. CASE CutWord BY <1>9, CutWordInv
  <1>10. CASE TakeWord BY <1>10, TakeWordInv
  <1>11. CASE EndSentence BY <1>11, EndSentenceInv
  <1>12. CASE Pack BY <1>12, PackInv
  <1>13. CASE NextBlock BY <1>13, NextBlockInv
  <1>14. CASE Done BY <1>14, StutterInv DEF Done
  <1>15. CASE UNCHANGED vars BY <1>15, StutterInv
  <1>16. QED
    BY <1>1, <1>2, <1>3, <1>4, <1>5, <1>6, <1>7, <1>8, <1>9, <1>10, <1>11,
       <1>12, <1>13, <1>14, <1>15 DEF Next

LEMMA Inductive == Spec => []IInv
  <1>1. Init => IInv
    BY InitInv
  <1>2. IInv /\ [Next]_vars => IInv'
    BY StepKeeps
  <1>3. QED BY <1>1, <1>2, PTL DEF Spec

-----------------------------------------------------------------------------
(* What is kept.  The characters of the section in hand before the place    *)
(* of the loops are the text of its chunks and pieces, in order.            *)

\* All of A is before all of B.
Precedes(A, B) == \A x \in A, y \in B : Before(x, y)

TextIn(ps) == UNION {p.text : p \in Range(ps)}

Ordered(ps) == \A i, j \in DOMAIN ps : i < j => Precedes(ps[i].text, ps[j].text)

PackedIn(cs) == UNION {TextIn(c.pieces) : c \in Range(cs)}

\* Chunks of one section.
ChunksOrdered(cs) ==
    /\ \A k \in DOMAIN cs : Ordered(cs[k].pieces)
    /\ \A k, l \in DOMAIN cs :
          k < l /\ cs[k].section = cs[l].section =>
              Precedes(TextIn(cs[k].pieces), TextIn(cs[l].pieces))

LEMMA BeforeOf ==
    ASSUME NEW x \in Places, NEW y \in Places
    PROVE  Before(x, y) <=>
             \/ x[1] < y[1]
             \/ x[1] = y[1] /\ x[2] < y[2]
             \/ x[1] = y[1] /\ x[2] = y[2] /\ x[3] < y[3]
             \/ x[1] = y[1] /\ x[2] = y[2] /\ x[3] = y[3] /\ x[4] < y[4]
<1>1. 1 .. 1 - 1 = {} /\ 1 .. 2 - 1 = {1} /\ 1 .. 3 - 1 = {1, 2} /\ 1 .. 4 - 1 = {1, 2, 3}
  OBVIOUS
<1>2. 1..4 = {1, 2, 3, 4}
  OBVIOUS
<1>3. Before(x, y) <=>
         \/ x[1] < y[1] /\ \A j \in 1 .. 1 - 1 : x[j] = y[j]
         \/ x[2] < y[2] /\ \A j \in 1 .. 2 - 1 : x[j] = y[j]
         \/ x[3] < y[3] /\ \A j \in 1 .. 3 - 1 : x[j] = y[j]
         \/ x[4] < y[4] /\ \A j \in 1 .. 4 - 1 : x[j] = y[j]
  BY <1>2 DEF Before
<1> QED
  BY <1>1, <1>3

\* Everything before a place is before everything that is not.
LEMMA AroundPlace ==
    ASSUME NEW x \in Places, NEW y \in Places, NEW h \in Places,
           Before(x, h), ~Before(y, h)
    PROVE  Before(x, y)
<1>1. /\ x[1] \in Nat /\ x[2] \in Nat /\ x[3] \in Nat /\ x[4] \in Nat
      /\ y[1] \in Nat /\ y[2] \in Nat /\ y[3] \in Nat /\ y[4] \in Nat
      /\ h[1] \in Nat /\ h[2] \in Nat /\ h[3] \in Nat /\ h[4] \in Nat
  BY DEF Places
<1> QED
  BY <1>1, BeforeOf

LEMMA TextOfMany ==
    ASSUME NEW ps \in Seq(Pieces), NEW p \in Pieces
    PROVE  /\ TextIn(<<>>) = {}
           /\ TextIn(Append(ps, p)) = TextIn(ps) \cup p.text
           /\ \A i \in DOMAIN ps : ps[i].text \subseteq TextIn(ps)
           /\ \A x \in TextIn(ps) : \E i \in DOMAIN ps : x \in ps[i].text
  BY RangeAppend, RangeEmpty DEF TextIn, Range

LEMMA OrderedIfAppended ==
    ASSUME NEW ps \in Seq(Pieces), NEW p \in Pieces
    PROVE  Ordered(Append(ps, p)) <=> Ordered(ps) /\ Precedes(TextIn(ps), p.text)
<1> DEFINE all == Append(ps, p)
<1>1. /\ all \in Seq(Pieces) /\ DOMAIN all = 1 .. Len(ps) + 1 /\ DOMAIN ps = 1 .. Len(ps)
      /\ Len(ps) \in Nat
      /\ \A i \in DOMAIN ps : all[i] = ps[i]
      /\ all[Len(ps) + 1] = p
  OBVIOUS
<1> HIDE DEF all
<1>2. ASSUME Ordered(all) PROVE Ordered(ps) /\ Precedes(TextIn(ps), p.text)
  <2>1. Ordered(ps)
    BY <1>1, <1>2 DEF Ordered
  <2>2. ASSUME NEW x \in TextIn(ps), NEW y \in p.text PROVE Before(x, y)
    <3>1. PICK i \in DOMAIN ps : x \in ps[i].text
      BY TextOfMany
    <3>2. i < Len(ps) + 1 /\ i \in DOMAIN all /\ Len(ps) + 1 \in DOMAIN all
      BY <1>1
    <3>3. Precedes(all[i].text, all[Len(ps) + 1].text)
      BY <1>2, <3>2 DEF Ordered
    <3> QED
      BY <1>1, <3>1, <3>3 DEF Precedes
  <2> QED
    BY <2>1, <2>2 DEF Precedes
<1>3. ASSUME Ordered(ps), Precedes(TextIn(ps), p.text) PROVE Ordered(all)
  <2> SUFFICES ASSUME NEW i \in DOMAIN all, NEW j \in DOMAIN all, i < j
               PROVE  Precedes(all[i].text, all[j].text)
    BY DEF Ordered
  <2>1. CASE j \in DOMAIN ps
    <3>1. i \in DOMAIN ps
      BY <1>1, <2>1
    <3> QED
      BY <1>1, <1>3, <2>1, <3>1 DEF Ordered
  <2>2. CASE j \notin DOMAIN ps
    <3>1. j = Len(ps) + 1 /\ i \in DOMAIN ps
      BY <1>1, <2>2
    <3> QED
      BY <1>1, <1>3, <3>1, TextOfMany DEF Precedes
  <2> QED
    BY <2>1, <2>2
<1> QED
  BY <1>2, <1>3 DEF all

LEMMA OrderedTail ==
    ASSUME NEW ps \in Seq(Pieces), ps # <<>>, Ordered(ps)
    PROVE  /\ Head(ps) \in Pieces
           /\ Ordered(Tail(ps))
           /\ Precedes(Head(ps).text, TextIn(Tail(ps)))
           /\ TextIn(ps) = Head(ps).text \cup TextIn(Tail(ps))
<1> DEFINE t == Tail(ps)
<1>1. /\ t \in Seq(Pieces) /\ Head(ps) = ps[1] /\ 1 \in DOMAIN ps
      /\ \A i \in DOMAIN t : i + 1 \in DOMAIN ps /\ t[i] = ps[i + 1] /\ 1 < i + 1 /\ i \in Nat
      /\ \A i \in DOMAIN ps : i = 1 \/ (i - 1 \in DOMAIN t /\ ps[i] = t[i - 1])
      /\ Head(ps) \in Pieces
  OBVIOUS
<1> HIDE DEF t
<1>2. Ordered(t)
  <2> SUFFICES ASSUME NEW i \in DOMAIN t, NEW j \in DOMAIN t, i < j
               PROVE  Precedes(t[i].text, t[j].text)
    BY DEF Ordered
  <2>1. i + 1 < j + 1
    BY <1>1
  <2> QED
    BY <1>1, <2>1 DEF Ordered
<1>3. Precedes(ps[1].text, TextIn(t))
  <2> SUFFICES ASSUME NEW x \in ps[1].text, NEW y \in TextIn(t) PROVE Before(x, y)
    BY DEF Precedes
  <2>1. PICK i \in DOMAIN t : y \in t[i].text
    BY <1>1, TextOfMany
  <2>2. Precedes(ps[1].text, ps[i + 1].text)
    BY <1>1 DEF Ordered
  <2> QED
    BY <1>1, <2>1, <2>2 DEF Precedes
<1>4. TextIn(ps) = ps[1].text \cup TextIn(t)
  <2>1. Range(ps) = {ps[1]} \cup Range(t)
    BY <1>1 DEF Range
  <2> QED
    BY <2>1 DEF TextIn
<1> QED
  BY <1>1, <1>2, <1>3, <1>4 DEF t

LEMMA PackedOfMany ==
    ASSUME NEW cs \in Seq(Chunks), NEW c \in Chunks
    PROVE  /\ PackedIn(<<>>) = {}
           /\ PackedIn(Append(cs, c)) = PackedIn(cs) \cup TextIn(c.pieces)
           /\ \A k \in DOMAIN cs : TextIn(cs[k].pieces) \subseteq PackedIn(cs)
<1>1. \A k \in DOMAIN cs : cs[k] \in Range(cs)
  BY DEF Range
<1> QED
  BY <1>1, RangeAppend, RangeEmpty DEF PackedIn

LEMMA ChunksAppended ==
    ASSUME NEW cs \in Seq(Chunks), NEW c \in Chunks, ChunksOrdered(cs), Ordered(c.pieces),
           Precedes(PackedIn(cs), TextIn(c.pieces))
    PROVE  ChunksOrdered(Append(cs, c))
<1> DEFINE all == Append(cs, c)
<1>1. /\ DOMAIN all = 1 .. Len(cs) + 1 /\ DOMAIN cs = 1 .. Len(cs) /\ Len(cs) \in Nat
      /\ \A k \in DOMAIN cs : all[k] = cs[k]
      /\ all[Len(cs) + 1] = c
  OBVIOUS
<1> HIDE DEF all
<1>2. \A k \in DOMAIN all : k \in DOMAIN cs \/ k = Len(cs) + 1
  BY <1>1
<1>3. \A k \in DOMAIN all : Ordered(all[k].pieces)
  BY <1>1, <1>2 DEF ChunksOrdered
<1>4. ASSUME NEW k \in DOMAIN all, NEW l \in DOMAIN all, k < l, all[k].section = all[l].section
      PROVE  Precedes(TextIn(all[k].pieces), TextIn(all[l].pieces))
  <2>1. k \in DOMAIN cs
    BY <1>1, <1>4
  <2>2. CASE l \in DOMAIN cs
    BY <1>1, <1>4, <2>1, <2>2 DEF ChunksOrdered
  <2>3. CASE l = Len(cs) + 1
    BY <1>1, <2>1, <2>3, PackedOfMany DEF Precedes
  <2> QED
    BY <1>2, <2>2, <2>3
<1> QED
  BY <1>3, <1>4 DEF ChunksOrdered, all

\* Chunks of other sections follow.
LEMMA ChunksFollow ==
    ASSUME NEW cs \in Seq(Chunks), NEW ds \in Seq(Chunks), ChunksOrdered(cs), ChunksOrdered(ds),
           \A k \in DOMAIN cs, l \in DOMAIN ds : cs[k].section # ds[l].section
    PROVE  ChunksOrdered(cs \o ds)
<1> DEFINE all == cs \o ds
<1>1. /\ DOMAIN all = 1 .. Len(cs) + Len(ds) /\ DOMAIN cs = 1 .. Len(cs)
      /\ DOMAIN ds = 1 .. Len(ds) /\ Len(cs) \in Nat /\ Len(ds) \in Nat
      /\ \A k \in DOMAIN cs : all[k] = cs[k]
      /\ \A k \in DOMAIN all : k \in DOMAIN cs
              \/ (k > Len(cs) /\ k - Len(cs) \in DOMAIN ds /\ all[k] = ds[k - Len(cs)])
  OBVIOUS
<1> HIDE DEF all
<1>2. \A k \in DOMAIN all : Ordered(all[k].pieces)
  BY <1>1 DEF ChunksOrdered
<1>3. ASSUME NEW k \in DOMAIN all, NEW l \in DOMAIN all, k < l, all[k].section = all[l].section
      PROVE  Precedes(TextIn(all[k].pieces), TextIn(all[l].pieces))
  <2>1. CASE l \in DOMAIN cs
    <3>1. k \in DOMAIN cs
      BY <1>1, <1>3, <2>1
    <3> QED
      BY <1>1, <1>3, <2>1, <3>1 DEF ChunksOrdered
  <2>2. CASE k \notin DOMAIN cs
    <3>1. l \notin DOMAIN cs
      BY <1>1, <1>3, <2>2
    <3>2. /\ k - Len(cs) \in DOMAIN ds /\ all[k] = ds[k - Len(cs)]
          /\ l - Len(cs) \in DOMAIN ds /\ all[l] = ds[l - Len(cs)]
          /\ k - Len(cs) < l - Len(cs)
      BY <1>1, <1>3, <2>2, <3>1
    <3> QED
      BY <1>3, <3>2 DEF ChunksOrdered
  <2>3. CASE k \in DOMAIN cs /\ l \notin DOMAIN cs
    BY <1>1, <1>3, <2>3
  <2> QED
    BY <2>1, <2>2, <2>3
<1> QED
  BY <1>2, <1>3 DEF ChunksOrdered, all

-----------------------------------------------------------------------------
(* The characters of a text.                                                *)

LEMMA InWordPart ==
    ASSUME NEW b \in Nat, NEW s \in Nat, NEW w \in Nat, NEW from \in Nat, NEW to \in Nat, NEW x
    PROVE  x \in WordPart(b, s, w, from, to) <=>
              x \in Places /\ x[1] = b /\ x[2] = s /\ x[3] = w /\ from < x[4] /\ x[4] <= to
<1>1. from + 1 .. to \subseteq Nat
  OBVIOUS
<1>2. ASSUME x \in WordPart(b, s, w, from, to)
      PROVE  x \in Places /\ x[1] = b /\ x[2] = s /\ x[3] = w /\ from < x[4] /\ x[4] <= to
  <2>1. PICK c \in from + 1 .. to : x = <<b, s, w, c>>
    BY <1>2 DEF WordPart
  <2> QED
    BY <1>1, <2>1 DEF Places
<1>3. ASSUME x \in Places, x[1] = b, x[2] = s, x[3] = w, from < x[4], x[4] <= to
      PROVE  x \in WordPart(b, s, w, from, to)
  <2>1. x = <<x[1], x[2], x[3], x[4]>> /\ x[4] \in Nat
    BY <1>3 DEF Places
  <2>2. x[4] \in from + 1 .. to
    BY <1>3, <2>1
  <2>3. x = <<b, s, w, x[4]>>
    BY <1>3, <2>1
  <2> QED
    BY <2>2, <2>3 DEF WordPart
<1> QED
  BY <1>2, <1>3

LEMMA InSentenceText ==
    ASSUME NEW b \in Nat, NEW s \in Nat, NEW sentence \in Sentences, NEW x
    PROVE  x \in SentenceText(b, s, sentence) <=>
              /\ x \in Places /\ x[1] = b /\ x[2] = s /\ x[3] \in DOMAIN sentence.words
              /\ 0 < x[4] /\ x[4] <= sentence.words[x[3]]
<1>1. \A w \in DOMAIN sentence.words : w \in Nat /\ sentence.words[w] \in Nat
  BY SeqElements DEF Sentences, Some, Positive
<1>2. \A w \in DOMAIN sentence.words :
         x \in WordText(b, s, w, sentence.words[w]) <=>
            x \in Places /\ x[1] = b /\ x[2] = s /\ x[3] = w
            /\ 0 < x[4] /\ x[4] <= sentence.words[w]
  <2> TAKE w \in DOMAIN sentence.words
  <2> DEFINE n == sentence.words[w]
  <2>1. w \in Nat /\ n \in Nat /\ 0 \in Nat
    BY <1>1
  <2> HIDE DEF n
  <2>2. x \in WordPart(b, s, w, 0, n) <=>
           x \in Places /\ x[1] = b /\ x[2] = s /\ x[3] = w /\ 0 < x[4] /\ x[4] <= n
    BY <2>1, InWordPart
  <2> QED
    BY <2>2 DEF WordText, n
<1>3. x \in SentenceText(b, s, sentence) <=>
         \E w \in DOMAIN sentence.words : x \in WordText(b, s, w, sentence.words[w])
  BY DEF SentenceText
<1> QED
  BY <1>2, <1>3

LEMMA InBlockText ==
    ASSUME NEW b \in Nat, NEW block \in Blocks, NEW x
    PROVE  x \in BlockText(b, block) <=>
              /\ x \in Places /\ x[1] = b /\ x[2] \in DOMAIN block.sentences
              /\ x[3] \in DOMAIN block.sentences[x[2]].words
              /\ 0 < x[4] /\ x[4] <= block.sentences[x[2]].words[x[3]]
<1>1. \A s \in DOMAIN block.sentences : s \in Nat /\ block.sentences[s] \in Sentences
  BY SentenceTyped DEF Positive
<1>2. \A s \in DOMAIN block.sentences :
         x \in SentenceText(b, s, block.sentences[s]) <=>
            /\ x \in Places /\ x[1] = b /\ x[2] = s /\ x[3] \in DOMAIN block.sentences[s].words
            /\ 0 < x[4] /\ x[4] <= block.sentences[s].words[x[3]]
  BY <1>1, InSentenceText
<1>3. x \in BlockText(b, block) <=>
         \E s \in DOMAIN block.sentences : x \in SentenceText(b, s, block.sentences[s])
  BY DEF BlockText
<1> QED
  BY <1>2, <1>3

\* x is a character of the section.
IsOf(section, x) ==
    /\ x \in Places /\ x[1] \in DOMAIN section.blocks
    /\ x[2] \in DOMAIN section.blocks[x[1]].sentences
    /\ x[3] \in DOMAIN section.blocks[x[1]].sentences[x[2]].words
    /\ 0 < x[4] /\ x[4] <= section.blocks[x[1]].sentences[x[2]].words[x[3]]

LEMMA InText ==
    ASSUME NEW s, Sections(resume)[s] \in Entries, NEW x
    PROVE  x \in TextOf(s) <=> IsOf(Sections(resume)[s], x)
<1> DEFINE section == Sections(resume)[s]
<1>1. \A b \in DOMAIN section.blocks : b \in Nat /\ section.blocks[b] \in Blocks
  BY BlockTyped DEF Positive
<1>2. \A b \in DOMAIN section.blocks :
         x \in BlockText(b, section.blocks[b]) <=> x[1] = b /\ IsOf(section, x)
  BY <1>1, InBlockText DEF IsOf
<1>3. x \in TextOf(s) <=>
         \E b \in DOMAIN section.blocks : x \in BlockText(b, section.blocks[b])
  BY DEF TextOf
<1>4. IsOf(section, x) => x[1] \in DOMAIN section.blocks
  BY DEF IsOf
<1> QED
  BY <1>2, <1>3, <1>4

-----------------------------------------------------------------------------
(* The second invariant.                                                    *)

\* The place of the loops: what is before it has been cut off.
Here ==
    IF pc = "block" THEN <<blk, 0, 0, 0>>
    ELSE IF pc = "split" THEN <<blk, snt, 0, 0>>
    ELSE IF pc = "words" THEN <<blk, snt, wrd, taken + 1>>
    ELSE <<blk + 1, 0, 0, 0>>

Passed == {x \in Places : IsOf(Section, x) /\ Before(x, Here)}

Laid == PackedIn(contents) \cup TextIn(content.pieces)
Line == Append(pieces, piece)

Kept ==
    InSection =>
        /\ \A c \in Range(contents) : c.section = sec
        /\ ChunksOrdered(contents)
        /\ Ordered(content.pieces)
        /\ Precedes(PackedIn(contents), TextIn(content.pieces))
        /\ Ordered(Line)
        /\ Precedes(Laid, TextIn(Line))
        /\ Laid \cup TextIn(Line) = Passed

Drafted ==
    /\ ChunksOrdered(drafts)
    /\ \A c \in Range(drafts) : c.section < sec
    /\ NothingLost

KInv == Kept /\ Drafted

LEMMA HereTyped ==
    ASSUME TypeOK
    PROVE  Here \in Places
<1>1. blk \in Nat /\ snt \in Nat /\ wrd \in Nat /\ taken \in Nat /\ taken + 1 \in Nat /\ blk + 1 \in Nat
  BY DEF TypeOK, Positive
<1> QED
  BY <1>1 DEF Here, Places

\* What an action adds to the pieces comes after what there is.
LEMMA LineGrows ==
    ASSUME TypeOK, KInv, InSection, InSection', UNCHANGED <<resume, sec, packed>>,
           NEW new, Ordered(Line)', TextIn(Line)' = TextIn(Line) \cup new,
           Here' \in Places,
           \A x \in Places : IsOf(Section, x) =>
               (Before(x, Here)' <=> (Before(x, Here) \/ x \in new)),
           \A x \in new : x \in Places /\ IsOf(Section, x) /\ ~Before(x, Here)
    PROVE  KInv'
<1>1. Section' = Section
  BY DEF Section
<1>2. Passed' = Passed \cup new
  <2>1. Passed' = {x \in Places : IsOf(Section, x) /\ Before(x, Here)'}
    BY <1>1 DEF Passed
  <2> QED
    BY <2>1 DEF Passed
<1>3. Precedes(Passed, new)
  BY AroundPlace, HereTyped DEF Passed, Precedes
<1>4. UNCHANGED <<contents, content, drafts, Laid>>
  BY DEF packed, Laid
<1>5. Laid \subseteq Passed
  BY DEF KInv, Kept
<1>6. Precedes(Laid, TextIn(Line))'
  <2>1. Precedes(Laid, TextIn(Line))
    BY DEF KInv, Kept
  <2>2. Precedes(Laid, new)
    BY <1>3, <1>5 DEF Precedes
  <2>3. Precedes(Laid, TextIn(Line) \cup new)
    BY <2>1, <2>2 DEF Precedes
  <2> QED
    BY <1>4, <2>3 DEF Precedes
<1>7. (Laid \cup TextIn(Line) = Passed)'
  BY <1>2, <1>4 DEF KInv, Kept
<1>8. Kept'
  BY <1>4, <1>6, <1>7 DEF KInv, Kept
<1>9. Drafted'
  BY <1>4 DEF KInv, Drafted, NothingLost, PackedText, TextOf
<1> QED
  BY <1>8, <1>9 DEF KInv

\* When it adds nothing.
LEMMA LineStays ==
    ASSUME TypeOK, KInv, InSection, InSection', UNCHANGED <<resume, sec, packed, piece, pieces>>,
           Here' \in Places,
           \A x \in Places : IsOf(Section, x) => (Before(x, Here)' <=> Before(x, Here))
    PROVE  KInv'
<1>0. PICK new : new = {}
  OBVIOUS
<1>1. Ordered(Line)' /\ TextIn(Line)' = TextIn(Line) \cup new
  BY <1>0 DEF KInv, Kept, Line
<1>2. UNCHANGED <<resume, sec, packed>>
  OBVIOUS
<1>3. \A x \in Places : IsOf(Section, x) =>
         (Before(x, Here)' <=> (Before(x, Here) \/ x \in new))
  BY <1>0
<1>4. \A x \in new : x \in Places /\ IsOf(Section, x) /\ ~Before(x, Here)
  BY <1>0
<1> QED
  BY <1>1, <1>2, <1>3, <1>4, LineGrows

LEMMA LineFlushed ==
    ASSUME NEW ps \in Seq(Pieces), NEW p \in Pieces, p = Nothing \/ p.length > 0
    PROVE  /\ Flushed(ps, p) \in Seq(Pieces)
           /\ TextIn(Flushed(ps, p)) = TextIn(Append(ps, p))
           /\ TextIn(Append(Flushed(ps, p), Nothing)) = TextIn(Append(ps, p))
           /\ Ordered(Append(ps, p)) =>
                 Ordered(Flushed(ps, p)) /\ Ordered(Append(Flushed(ps, p), Nothing))
<1>1. Nothing \in Pieces /\ Nothing.text = {} /\ Nothing.length = 0
  BY DEF Nothing, Piece, Pieces
<1>2. Flushed(ps, p) \in Seq(Pieces)
  BY DEF Flushed
<1>3. TextIn(Append(Flushed(ps, p), Nothing)) = TextIn(Flushed(ps, p))
  BY <1>1, <1>2, TextOfMany
<1>4. TextIn(Flushed(ps, p)) = TextIn(Append(ps, p))
  <2>1. CASE p = Nothing
    BY <1>1, <2>1, TextOfMany DEF Flushed
  <2>2. CASE p.length > 0
    BY <2>2 DEF Flushed
  <2> QED
    BY <2>1, <2>2
<1>5. Ordered(Append(ps, p)) => Ordered(Flushed(ps, p))
  BY OrderedIfAppended DEF Flushed
<1>6. Ordered(Flushed(ps, p)) => Ordered(Append(Flushed(ps, p), Nothing))
  BY <1>1, <1>2, OrderedIfAppended DEF Precedes
<1> QED
  BY <1>2, <1>3, <1>4, <1>5, <1>6

LEMMA LineTaken ==
    ASSUME pieces \in Seq(Pieces), piece \in Pieces, NEW p \in Pieces, Take(p),
           Joined(piece, p) \in Pieces,
           Ordered(Line), Precedes(TextIn(Line), p.text)
    PROVE  Ordered(Line)' /\ TextIn(Line)' = TextIn(Line) \cup p.text
<1>1. Ordered(pieces) /\ Precedes(TextIn(pieces), piece.text)
      /\ TextIn(Line) = TextIn(pieces) \cup piece.text
  BY OrderedIfAppended, TextOfMany DEF Line
<1>2. CASE piece' = p /\ pieces' = Append(pieces, piece)
  <2>1. Line' = Append(Line, p) /\ Line \in Seq(Pieces)
    BY <1>2 DEF Line
  <2>2. Ordered(Append(Line, p)) /\ TextIn(Append(Line, p)) = TextIn(Line) \cup p.text
    BY <2>1, OrderedIfAppended, TextOfMany
  <2> QED
    BY <2>1, <2>2
<1>3. CASE piece' = Joined(piece, p) /\ pieces' = pieces
  <2>1. Joined(piece, p).text = piece.text \cup p.text
    BY DEF Joined, Piece
  <2>2. Precedes(TextIn(pieces), piece.text \cup p.text)
    BY <1>1 DEF Precedes
  <2>3. Ordered(Append(pieces, Joined(piece, p)))
    BY <1>1, <2>1, <2>2, OrderedIfAppended
  <2>4. TextIn(Append(pieces, Joined(piece, p))) = TextIn(pieces) \cup (piece.text \cup p.text)
    BY <2>1, TextOfMany
  <2>5. Line' = Append(pieces, Joined(piece, p))
    BY <1>3 DEF Line
  <2> QED
    BY <1>1, <2>3, <2>4, <2>5
<1> QED
  BY <1>2, <1>3 DEF Take

\* The numbers in a place, for the prover.
LEMMA PlaceNumbers ==
    ASSUME NEW x \in Places
    PROVE  /\ x[1] \in Nat /\ x[2] \in Nat /\ x[3] \in Nat /\ x[4] \in Nat
  BY DEF Places

\* x lies before the place <<b, s, w, c>>.
Lies(x, b, s, w, c) ==
    \/ x[1] < b
    \/ x[1] = b /\ x[2] < s
    \/ x[1] = b /\ x[2] = s /\ x[3] < w
    \/ x[1] = b /\ x[2] = s /\ x[3] = w /\ x[4] < c

LEMMA Placed ==
    ASSUME NEW x \in Places, NEW b \in Nat, NEW s \in Nat, NEW w \in Nat, NEW c \in Nat
    PROVE  /\ <<b, s, w, c>> \in Places
           /\ Before(x, <<b, s, w, c>>) <=> Lies(x, b, s, w, c)
<1> DEFINE h == <<b, s, w, c>>
<1>1. h \in Places /\ h[1] = b /\ h[2] = s /\ h[3] = w /\ h[4] = c
  BY DEF Places
<1> HIDE DEF h
<1>2. h \in Places /\ (Before(x, h) <=> Lies(x, b, s, w, c))
  BY <1>1, BeforeOf DEF Lies
<1> QED
  BY <1>2 DEF h

LEMMA OfSection ==
    ASSUME TypeOK, InSection, NEW x \in Places, IsOf(Section, x)
    PROVE  /\ x[1] >= 1 /\ x[2] >= 1 /\ x[3] >= 1
           /\ x[1] <= Len(Section.blocks)
           /\ x[1] = blk => x[2] <= Len(Block.sentences)
           /\ x[1] = blk /\ x[2] = snt => x[3] <= Len(Sentence.words)
           /\ x[1] = blk /\ x[2] = snt /\ x[3] = wrd => x[4] <= Word
<1>1. Section \in Entries /\ Section.blocks \in Seq(Blocks)
  BY InHand
<1>2. x[1] \in DOMAIN Section.blocks
  BY DEF IsOf
<1>3. Section.blocks[x[1]] \in Blocks /\ Section.blocks[x[1]].sentences \in Seq(Sentences)
  BY <1>1, <1>2, BlockTyped
<1>4. x[2] \in DOMAIN Section.blocks[x[1]].sentences
  BY DEF IsOf
<1>5. Section.blocks[x[1]].sentences[x[2]].words \in Seq(Positive)
  BY <1>3, <1>4, SentenceTyped
<1>6. x[3] \in DOMAIN Section.blocks[x[1]].sentences[x[2]].words
  BY DEF IsOf
<1>7. x[1] >= 1 /\ x[1] <= Len(Section.blocks)
  BY <1>1, <1>2
<1>8. x[2] >= 1 /\ x[2] <= Len(Section.blocks[x[1]].sentences)
  BY <1>3, <1>4
<1>9. x[3] >= 1 /\ x[3] <= Len(Section.blocks[x[1]].sentences[x[2]].words)
  BY <1>5, <1>6
<1>10. x[4] <= Section.blocks[x[1]].sentences[x[2]].words[x[3]]
  BY DEF IsOf
<1> QED
  BY <1>7, <1>8, <1>9, <1>10 DEF Block, Sentence, Word

LEMMA LongBlockKeeps == ASSUME IInv, KInv, LongBlock PROVE KInv'
<1>1. TypeOK /\ InSection /\ InSection' /\ UNCHANGED <<resume, sec, packed, piece, pieces>>
  BY DEF IInv, LongBlock, InSection
<1>2. Here = <<blk, 0, 0, 0>> /\ Here' = <<blk, 1, 0, 0>> /\ blk \in Nat /\ 0 \in Nat /\ 1 \in Nat
  BY <1>1 DEF LongBlock, Here, TypeOK, Positive
<1>3. ASSUME NEW x \in Places, IsOf(Section, x)
      PROVE  Here' \in Places /\ (Before(x, Here)' <=> Before(x, Here))
  <2>1. Before(x, Here)' <=> Before(x, Here')
    BY DEF Before
  <2>2. x[2] >= 1 /\ x[3] >= 1
    BY <1>1, <1>3, OfSection
  <2> QED
    BY <1>2, <2>1, <2>2, Placed, PlaceNumbers DEF Lies
<1>4. Here' \in Places
  BY <1>2 DEF Places
<1> QED
  BY <1>1, <1>3, <1>4, LineStays

LEMMA NextBlockKeeps == ASSUME IInv, KInv, NextBlock PROVE KInv'
<1>1. TypeOK /\ InSection /\ InSection' /\ UNCHANGED <<resume, sec, packed, piece, pieces>>
  BY DEF IInv, NextBlock, InSection
<1>2. Here = <<blk + 1, 0, 0, 0>> /\ Here' = <<blk + 1, 0, 0, 0>> /\ blk + 1 \in Nat
  BY <1>1 DEF NextBlock, Here, TypeOK, Positive
<1>3. Here' \in Places /\ Here' = Here
  BY <1>2 DEF Places
<1>4. \A x \in Places : Before(x, Here)' <=> Before(x, Here)
  BY <1>3 DEF Before
<1> QED
  BY <1>1, <1>3, <1>4, LineStays

LEMMA WholeBlockKeeps == ASSUME IInv, KInv, WholeBlock PROVE KInv'
<1> DEFINE p == Piece(Block.length, BlockText(blk, Block))
<1>1. TypeOK /\ InSection /\ InSection' /\ UNCHANGED <<resume, sec, blk, piece, packed>>
  BY DEF IInv, WholeBlock, InSection, place
<1>2. blk \in DOMAIN Section.blocks /\ blk \in Nat /\ blk + 1 \in Nat
  BY <1>1, InHand DEF WholeBlock, TypeOK, Positive
<1>3. Here = <<blk, 0, 0, 0>> /\ Here' = <<blk + 1, 0, 0, 0>>
  BY <1>1 DEF WholeBlock, Here
<1>4. pieces = <<>> /\ piece = Nothing /\ pieces' = <<p>>
  BY DEF IInv, NoneLeft, WholeBlock
<1>5. p \in Pieces /\ p.text = BlockText(blk, Block)
  <2>1. Section \in Entries /\ Block = Section.blocks[blk] /\ Block.length <= Available(Section.header)
    BY <1>1, InHand DEF Block, WholeBlock, Limit, Header
  <2>2. Fine(Section, p)
    BY <1>2, <2>1, FineBlock
  <2> QED
    BY <2>2 DEF Fine, Piece
<1> HIDE DEF p
<1>6. Ordered(Line)' /\ TextIn(Line)' = TextIn(Line) \cup p.text
  <2>0. Nothing \in Pieces /\ Nothing.text = {} /\ <<>> \in Seq(Pieces) /\ <<p>> = Append(<<>>, p)
    BY <1>5 DEF Nothing, Piece, Pieces
  <2>1. TextIn(Line) = {}
    BY <1>4, <2>0, TextOfMany DEF Line
  <2>2. <<p>> \in Seq(Pieces) /\ TextIn(<<p>>) = p.text
    <3>1. <<p>> \in Seq(Pieces)
      BY <1>5
    <3>2. TextIn(Append(<<>>, p)) = TextIn(<<>>) \cup p.text /\ TextIn(<<>>) = {}
      BY <1>5, <2>0, TextOfMany
    <3> QED
      BY <2>0, <3>1, <3>2
  <2>3. Ordered(<<p>>)
    BY DEF Ordered
  <2>4. Ordered(Append(<<p>>, Nothing)) /\ TextIn(Append(<<p>>, Nothing)) = p.text
    BY <2>0, <2>2, <2>3, TextOfMany, OrderedIfAppended DEF Precedes
  <2>5. Line' = Append(<<p>>, Nothing)
    BY <1>1, <1>4 DEF Line
  <2> QED
    BY <2>1, <2>4, <2>5
<1>7. Here' \in Places
  BY <1>2, <1>3 DEF Places
<1>8. ASSUME NEW x \in Places
      PROVE  /\ Before(x, Here)' <=> Before(x, Here')
             /\ Before(x, Here') <=> x[1] < blk + 1
             /\ Before(x, Here) <=> x[1] < blk
             /\ x[1] \in Nat
  BY <1>2, <1>3, Placed, PlaceNumbers DEF Before, Lies
<1>9. ASSUME NEW x PROVE x \in p.text <=> x \in Places /\ x[1] = blk /\ IsOf(Section, x)
  <2>1. Block \in Blocks
    BY <1>1, <1>2, BlockInHand
  <2> QED
    BY <1>2, <1>5, <2>1, InBlockText DEF IsOf, Block
<1>10. \A x \in Places : IsOf(Section, x) => (Before(x, Here)' <=> (Before(x, Here) \/ x \in p.text))
  BY <1>2, <1>8, <1>9
<1>11. \A x \in p.text : x \in Places /\ IsOf(Section, x) /\ ~Before(x, Here)
  BY <1>2, <1>8, <1>9
<1> QED
  BY <1>1, <1>6, <1>7, <1>10, <1>11, LineGrows

\* When the piece in hand is only flushed.
LEMMA LineIsFlushed ==
    ASSUME IInv, KInv, InSection, InSection', UNCHANGED <<resume, sec, packed>>,
           pieces' = Flushed(pieces, piece), piece' = Nothing,
           Here' \in Places,
           \A x \in Places : IsOf(Section, x) => (Before(x, Here)' <=> Before(x, Here))
    PROVE  KInv'
<1>0. PICK new : new = {}
  OBVIOUS
<1>1. TypeOK /\ pieces \in Seq(Pieces) /\ piece \in Pieces /\ (piece = Nothing \/ piece.length > 0)
  BY DEF IInv, TypeOK, PiecesFit, Fine
<1>2. Ordered(Append(pieces, piece))
  BY DEF KInv, Kept, Line
<1>3. Line' = Append(Flushed(pieces, piece), Nothing) /\ Line = Append(pieces, piece)
  BY DEF Line
<1>4. Ordered(Line)' /\ TextIn(Line)' = TextIn(Line) \cup new
  <2>1. Ordered(Append(Flushed(pieces, piece), Nothing))
        /\ TextIn(Append(Flushed(pieces, piece), Nothing)) = TextIn(Append(pieces, piece))
    BY <1>1, <1>2, LineFlushed
  <2>2. Ordered(Line') /\ TextIn(Line') = TextIn(Line)
    BY <1>3, <2>1
  <2> QED
    BY <1>0, <2>2
<1>5. UNCHANGED <<resume, sec, packed>>
  OBVIOUS
<1>6. \A x \in Places : IsOf(Section, x) =>
         (Before(x, Here)' <=> (Before(x, Here) \/ x \in new))
  BY <1>0
<1>7. \A x \in new : x \in Places /\ IsOf(Section, x) /\ ~Before(x, Here)
  BY <1>0
<1> QED
  BY <1>1, <1>4, <1>5, <1>6, <1>7, LineGrows

\* When a part of the text is taken.
LEMMA LineTakes ==
    ASSUME IInv, KInv, InSection, InSection', UNCHANGED <<resume, sec, packed>>,
           NEW p, Fine(Section, p), Take(p),
           Here' \in Places,
           \A x \in Places : IsOf(Section, x) =>
               (Before(x, Here)' <=> (Before(x, Here) \/ x \in p.text)),
           \A x \in p.text : x \in Places /\ IsOf(Section, x) /\ ~Before(x, Here)
    PROVE  KInv'
<1>1. TypeOK /\ pieces \in Seq(Pieces) /\ piece \in Pieces /\ p \in Pieces
  BY DEF IInv, TypeOK, Fine
<1>2. Joined(piece, p) \in Pieces
  BY <1>1 DEF Joined, Piece, Pieces
<1>3. Precedes(TextIn(Line), p.text)
  <2>1. TextIn(Line) \subseteq Passed
    BY DEF KInv, Kept
  <2> QED
    BY <1>1, <2>1, AroundPlace, HereTyped DEF Passed, Precedes
<1>4. Ordered(Line)
  BY DEF KInv, Kept
<1>5. Ordered(Line)' /\ TextIn(Line)' = TextIn(Line) \cup p.text
  BY <1>1, <1>2, <1>3, <1>4, LineTaken
<1> QED
  BY <1>1, <1>5, LineGrows

LEMMA EndBlockKeeps == ASSUME IInv, KInv, EndBlock PROVE KInv'
<1>1. TypeOK /\ InSection /\ InSection' /\ UNCHANGED <<resume, sec, blk, packed>>
  BY DEF IInv, EndBlock, InSection, place
<1>2. Here = <<blk, snt, 0, 0>> /\ Here' = <<blk + 1, 0, 0, 0>> /\ blk \in Nat /\ snt \in Nat
      /\ blk + 1 \in Nat /\ 0 \in Nat
  BY <1>1 DEF EndBlock, Here, TypeOK, Positive
<1>3. ASSUME NEW x \in Places, IsOf(Section, x)
      PROVE  Before(x, Here)' <=> Before(x, Here)
  <2>1. Before(x, Here)' <=> Before(x, Here')
    BY DEF Before
  <2>2. x[1] = blk => x[2] <= Len(Block.sentences)
    BY <1>1, <1>3, OfSection
  <2>3. Len(Block.sentences) < snt /\ Len(Block.sentences) \in Nat
    <3>1. blk \in DOMAIN Section.blocks
      BY <1>1, InHand DEF EndBlock, TypeOK, Positive
    <3>2. Len(Block.sentences) \in Nat
      BY <1>1, <3>1, BlockInHand
    <3> QED
      BY <1>2, <3>2 DEF EndBlock
  <2>4. x[1] = blk => x[2] < snt
    BY <1>2, <2>2, <2>3, PlaceNumbers
  <2>5. Before(x, Here) <=> Lies(x, blk, snt, 0, 0)
    BY <1>2, Placed
  <2>6. Before(x, Here') <=> Lies(x, blk + 1, 0, 0, 0)
    BY <1>2, Placed
  <2>7. x[1] \in Nat /\ x[2] \in Nat /\ x[3] \in Nat /\ x[4] \in Nat
    BY PlaceNumbers
  <2> QED
    BY <1>2, <2>1, <2>4, <2>5, <2>6, <2>7 DEF Lies
<1>4. Here' \in Places
  BY <1>2 DEF Places
<1>5. pieces' = Flushed(pieces, piece) /\ piece' = Nothing
  BY DEF EndBlock
<1> QED
  BY <1>1, <1>3, <1>4, <1>5, LineIsFlushed

LEMMA LongSentenceKeeps == ASSUME IInv, KInv, LongSentence PROVE KInv'
<1>1. TypeOK /\ InSection /\ InSection' /\ UNCHANGED <<resume, sec, blk, snt, packed>>
  BY DEF IInv, LongSentence, InSection
<1>2. Here = <<blk, snt, 0, 0>> /\ Here' = <<blk, snt, 1, 0 + 1>> /\ blk \in Nat /\ snt \in Nat
      /\ 0 \in Nat /\ 1 \in Nat /\ 0 + 1 = 1
  BY <1>1 DEF LongSentence, Here, TypeOK, Positive
<1>3. ASSUME NEW x \in Places, IsOf(Section, x)
      PROVE  Before(x, Here)' <=> Before(x, Here)
  <2>1. Before(x, Here)' <=> Before(x, Here')
    BY DEF Before
  <2>2. x[3] >= 1 /\ x[4] > 0
    BY <1>1, <1>3, OfSection DEF IsOf
  <2>5. Before(x, Here) <=> Lies(x, blk, snt, 0, 0)
    BY <1>2, Placed
  <2>6. Before(x, Here') <=> Lies(x, blk, snt, 1, 0 + 1)
    BY <1>2, Placed
  <2>7. x[1] \in Nat /\ x[2] \in Nat /\ x[3] \in Nat /\ x[4] \in Nat
    BY PlaceNumbers
  <2> QED
    BY <1>2, <2>1, <2>2, <2>5, <2>6, <2>7 DEF Lies
<1>4. Here' \in Places
  BY <1>2 DEF Places
<1>5. pieces' = Flushed(pieces, piece) /\ piece' = Nothing
  BY DEF LongSentence
<1> QED
  BY <1>1, <1>3, <1>4, <1>5, LineIsFlushed

LEMMA EndSentenceKeeps == ASSUME IInv, KInv, EndSentence PROVE KInv'
<1>1. TypeOK /\ InSection /\ InSection' /\ UNCHANGED <<resume, sec, blk, packed>>
  BY DEF IInv, EndSentence, InSection
<1>2. /\ Here = <<blk, snt, wrd, taken + 1>> /\ Here' = <<blk, snt + 1, 0, 0>>
      /\ blk \in Nat /\ snt \in Nat /\ snt + 1 \in Nat /\ 0 \in Nat /\ wrd \in Nat
      /\ taken + 1 \in Nat
  BY <1>1 DEF EndSentence, Here, TypeOK, Positive
<1>3. ASSUME NEW x \in Places, IsOf(Section, x)
      PROVE  Before(x, Here)' <=> Before(x, Here)
  <2>1. Before(x, Here)' <=> Before(x, Here')
    BY DEF Before
  <2>2. x[1] = blk /\ x[2] = snt => x[3] <= Len(Sentence.words)
    BY <1>1, <1>3, OfSection
  <2>3. Len(Sentence.words) < wrd /\ Len(Sentence.words) \in Nat
    <3>1. blk \in DOMAIN Section.blocks
      BY <1>1, InHand DEF EndSentence, TypeOK, Positive
    <3>2. Block.sentences \in Seq(Sentences)
      BY <1>1, <3>1, BlockInHand
    <3>3. snt \in DOMAIN Block.sentences
      BY <1>1, <3>2 DEF EndSentence, TypeOK, Positive
    <3>4. Len(Sentence.words) \in Nat
      BY <1>1, <3>1, <3>3, SentenceInHand
    <3> QED
      BY <1>2, <3>4 DEF EndSentence
  <2>4. x[1] = blk /\ x[2] = snt => x[3] < wrd
    BY <1>2, <2>2, <2>3, PlaceNumbers
  <2>5. Before(x, Here) <=> Lies(x, blk, snt, wrd, taken + 1)
    BY <1>2, Placed
  <2>6. Before(x, Here') <=> Lies(x, blk, snt + 1, 0, 0)
    BY <1>2, Placed
  <2>7. x[1] \in Nat /\ x[2] \in Nat /\ x[3] \in Nat /\ x[4] \in Nat
    BY PlaceNumbers
  <2> QED
    BY <1>2, <2>1, <2>4, <2>5, <2>6, <2>7 DEF Lies
<1>4. Here' \in Places
  BY <1>2 DEF Places
<1>5. pieces' = Flushed(pieces, piece) /\ piece' = Nothing
  BY DEF EndSentence
<1> QED
  BY <1>1, <1>3, <1>4, <1>5, LineIsFlushed

LEMMA TakeSentenceKeeps == ASSUME IInv, KInv, TakeSentence PROVE KInv'
<1> DEFINE p == Piece(Sentence.length, SentenceText(blk, snt, Sentence))
<1>1. TypeOK /\ InSection /\ InSection' /\ UNCHANGED <<resume, sec, blk, packed>>
  BY DEF IInv, TakeSentence, InSection
<1>2. /\ Here = <<blk, snt, 0, 0>> /\ Here' = <<blk, snt + 1, 0, 0>>
      /\ blk \in Nat /\ snt \in Nat /\ snt + 1 \in Nat /\ 0 \in Nat
  BY <1>1 DEF TakeSentence, Here, TypeOK, Positive
<1>3. blk \in DOMAIN Section.blocks
  BY <1>1, InHand DEF TakeSentence, TypeOK, Positive
<1>4. Block.sentences \in Seq(Sentences)
  BY <1>1, <1>3, BlockInHand
<1>5. snt \in DOMAIN Block.sentences
  BY <1>1, <1>4 DEF TakeSentence, TypeOK, Positive
<1>6. Fine(Section, p)
  <2>1. Section \in Entries /\ Sentence = Section.blocks[blk].sentences[snt]
        /\ Sentence.length <= Available(Section.header) /\ Block = Section.blocks[blk]
    BY <1>1, InHand DEF Block, Sentence, TakeSentence, Limit, Header
  <2> QED
    BY <1>3, <1>5, <2>1, FineSentence
<1>7. p.text = SentenceText(blk, snt, Sentence) /\ Take(p)
  BY DEF TakeSentence, Piece
<1> HIDE DEF p
<1>8. ASSUME NEW x \in Places
      PROVE  /\ Before(x, Here)' <=> Before(x, Here')
             /\ Before(x, Here') <=> (x[1] < blk \/ (x[1] = blk /\ x[2] < snt + 1))
             /\ Before(x, Here) <=> (x[1] < blk \/ (x[1] = blk /\ x[2] < snt))
             /\ x[1] \in Nat /\ x[2] \in Nat
  BY <1>2, Placed, PlaceNumbers DEF Before, Lies
<1>9. ASSUME NEW x PROVE x \in p.text <=> x \in Places /\ x[1] = blk /\ x[2] = snt /\ IsOf(Section, x)
  <2>1. Sentence \in Sentences
    BY <1>1, <1>3, <1>5, SentenceInHand
  <2>2. x \in p.text <=>
              /\ x \in Places /\ x[1] = blk /\ x[2] = snt /\ x[3] \in DOMAIN Sentence.words
              /\ 0 < x[4] /\ x[4] <= Sentence.words[x[3]]
    BY <1>2, <1>7, <2>1, InSentenceText
  <2> QED
    BY <1>3, <1>5, <2>2 DEF IsOf, Block, Sentence
<1>10. \A x \in Places : IsOf(Section, x) => (Before(x, Here)' <=> (Before(x, Here) \/ x \in p.text))
  BY <1>2, <1>8, <1>9
<1>11. \A x \in p.text : x \in Places /\ IsOf(Section, x) /\ ~Before(x, Here)
  BY <1>2, <1>8, <1>9
<1>12. Here' \in Places
  BY <1>2 DEF Places
<1> QED
  BY <1>1, <1>6, <1>7, <1>10, <1>11, <1>12, LineTakes

\* The word in hand.
LEMMA WordInHand ==
    ASSUME TypeOK, LongOnly, pc = "words", wrd <= Len(Sentence.words)
    PROVE  /\ blk \in DOMAIN Section.blocks /\ snt \in DOMAIN Block.sentences
           /\ wrd \in DOMAIN Sentence.words /\ Word \in Nat /\ taken \in Nat /\ taken < Word
           /\ Limit \in Nat /\ Limit > 0
           /\ blk \in Nat /\ snt \in Nat /\ wrd \in Nat /\ wrd + 1 \in Nat /\ taken + 1 \in Nat
           /\ Here = <<blk, snt, wrd, taken + 1>>
<1>1. InSection
  BY DEF InSection
<1>2. blk \in DOMAIN Section.blocks
  BY <1>1, InHand DEF TypeOK, Positive
<1>3. snt \in DOMAIN Block.sentences
  BY <1>1, <1>2, BlockInHand DEF TypeOK, Positive
<1>4. wrd \in DOMAIN Sentence.words /\ Word \in Positive
  BY <1>1, <1>2, <1>3, SentenceInHand DEF TypeOK, Positive, Word
<1>5. Limit \in Positive
  BY <1>1, InHand
<1> QED
  BY <1>2, <1>3, <1>4, <1>5 DEF TypeOK, Positive, LongOnly, Here

\* A part of it, which is not before the place.
LEMMA PartInHand ==
    ASSUME TypeOK, LongOnly, pc = "words", wrd <= Len(Sentence.words),
           NEW to \in Nat, to <= Word
    PROVE  /\ \A x : x \in WordPart(blk, snt, wrd, taken, to) <=>
                /\ x \in Places /\ IsOf(Section, x)
                /\ x[1] = blk /\ x[2] = snt /\ x[3] = wrd /\ taken < x[4] /\ x[4] <= to
           /\ \A x \in WordPart(blk, snt, wrd, taken, to) : ~Before(x, Here)
<1>1. /\ blk \in DOMAIN Section.blocks /\ snt \in DOMAIN Block.sentences
      /\ wrd \in DOMAIN Sentence.words /\ Word \in Nat /\ taken \in Nat /\ taken < Word
      /\ blk \in Nat /\ snt \in Nat /\ wrd \in Nat /\ taken + 1 \in Nat
      /\ Here = <<blk, snt, wrd, taken + 1>>
  BY WordInHand
<1>2. ASSUME NEW x
      PROVE  x \in WordPart(blk, snt, wrd, taken, to) <=>
                x \in Places /\ x[1] = blk /\ x[2] = snt /\ x[3] = wrd /\ taken < x[4] /\ x[4] <= to
  BY <1>1, InWordPart
<1>3. ASSUME NEW x \in Places, x[1] = blk, x[2] = snt, x[3] = wrd, taken < x[4], x[4] <= to
      PROVE  IsOf(Section, x)
  BY <1>1, <1>3, PlaceNumbers DEF IsOf, Block, Sentence, Word
<1>4. ASSUME NEW x \in WordPart(blk, snt, wrd, taken, to)
      PROVE  ~Before(x, Here)
  <2>1. x \in Places /\ x[1] = blk /\ x[2] = snt /\ x[3] = wrd /\ taken < x[4]
    BY <1>2
  <2>2. Before(x, Here) <=> Lies(x, blk, snt, wrd, taken + 1)
    BY <1>1, <2>1, Placed
  <2>3. x[1] \in Nat /\ x[2] \in Nat /\ x[3] \in Nat /\ x[4] \in Nat
    BY <2>1, PlaceNumbers
  <2> QED
    BY <1>1, <2>1, <2>2, <2>3 DEF Lies
<1> QED
  BY <1>2, <1>3, <1>4

LEMMA TakeWordKeeps == ASSUME IInv, KInv, TakeWord PROVE KInv'
<1> DEFINE p == Piece(Rest, WordPart(blk, snt, wrd, taken, Word))
<1>1. /\ TypeOK /\ LongOnly /\ InSection /\ InSection' /\ UNCHANGED <<resume, sec, packed>>
      /\ pc = "words" /\ wrd <= Len(Sentence.words)
  BY DEF IInv, TakeWord, InSection
<1>2. /\ blk \in DOMAIN Section.blocks /\ snt \in DOMAIN Block.sentences
      /\ wrd \in DOMAIN Sentence.words /\ Word \in Nat /\ taken \in Nat /\ taken < Word
      /\ Limit \in Nat /\ Limit > 0
      /\ blk \in Nat /\ snt \in Nat /\ wrd \in Nat /\ wrd + 1 \in Nat /\ taken + 1 \in Nat
      /\ Here = <<blk, snt, wrd, taken + 1>>
  BY <1>1, WordInHand
<1>3. Here' = <<blk, snt, wrd + 1, 0 + 1>> /\ 0 + 1 \in Nat
  BY DEF TakeWord, Here
<1>4. Fine(Section, p)
  <2>1. Sentence.length > Limit /\ (Word > Limit \/ taken = 0)
    BY <1>1, <1>2 DEF LongOnly
  <2>2. /\ Block = Section.blocks[blk] /\ Sentence = Section.blocks[blk].sentences[snt]
        /\ Word = Sentence.words[wrd] /\ Section \in Entries /\ Word - taken <= Limit
        /\ Limit = Available(Section.header)
    BY <1>1, InHand DEF Block, Sentence, Word, TakeWord, Rest
  <2>3. Fine(Section, Piece(Word - taken, WordPart(blk, snt, wrd, taken, Word)))
    BY <1>2, <2>1, <2>2, FinePart
  <2> QED
    BY <2>3 DEF Rest
<1>5. Take(p) /\ p.text = WordPart(blk, snt, wrd, taken, Word)
  BY DEF TakeWord, Piece
<1> HIDE DEF p
<1>6. /\ \A x : x \in p.text <=>
           /\ x \in Places /\ IsOf(Section, x)
           /\ x[1] = blk /\ x[2] = snt /\ x[3] = wrd /\ taken < x[4] /\ x[4] <= Word
      /\ \A x \in p.text : ~Before(x, Here)
  <2>1. Word <= Word
    BY <1>2
  <2> QED
    BY <1>1, <1>2, <1>5, <2>1, PartInHand
<1>7. ASSUME NEW x \in Places, IsOf(Section, x)
      PROVE  Before(x, Here)' <=> (Before(x, Here) \/ x \in p.text)
  <2>1. Before(x, Here)' <=> Before(x, Here')
    BY DEF Before
  <2>2. Before(x, Here') <=> Lies(x, blk, snt, wrd + 1, 0 + 1)
    BY <1>2, <1>3, Placed
  <2>3. Before(x, Here) <=> Lies(x, blk, snt, wrd, taken + 1)
    BY <1>2, Placed
  <2>4. x[1] \in Nat /\ x[2] \in Nat /\ x[3] \in Nat /\ x[4] \in Nat /\ x[4] > 0
    BY <1>7, PlaceNumbers DEF IsOf
  <2>5. x[1] = blk /\ x[2] = snt /\ x[3] = wrd => x[4] <= Word
    BY <1>1, <1>7, OfSection
  <2>6. x \in p.text <=> x[1] = blk /\ x[2] = snt /\ x[3] = wrd /\ taken < x[4]
    BY <1>6, <1>7, <2>5
  <2> QED
    BY <1>2, <2>1, <2>2, <2>3, <2>4, <2>6 DEF Lies
<1>8. Here' \in Places
  BY <1>2, <1>3 DEF Places
<1>9. \A x \in p.text : x \in Places /\ IsOf(Section, x) /\ ~Before(x, Here)
  BY <1>6
<1> QED
  BY <1>1, <1>4, <1>5, <1>7, <1>8, <1>9, LineTakes

LEMMA CutWordKeeps == ASSUME IInv, KInv, CutWord PROVE KInv'
<1> DEFINE to == taken + Limit
           p == Piece(Limit, WordPart(blk, snt, wrd, taken, to))
           flushed == Flushed(pieces, piece)
<1>1. /\ TypeOK /\ LongOnly /\ InSection /\ InSection' /\ UNCHANGED <<resume, sec, packed>>
      /\ pc = "words" /\ wrd <= Len(Sentence.words)
  BY DEF IInv, CutWord, InSection
<1>2. /\ blk \in DOMAIN Section.blocks /\ snt \in DOMAIN Block.sentences
      /\ wrd \in DOMAIN Sentence.words /\ Word \in Nat /\ taken \in Nat /\ taken < Word
      /\ Limit \in Nat /\ Limit > 0
      /\ blk \in Nat /\ snt \in Nat /\ wrd \in Nat /\ wrd + 1 \in Nat /\ taken + 1 \in Nat
      /\ Here = <<blk, snt, wrd, taken + 1>>
  BY <1>1, WordInHand
<1>3. to \in Nat /\ to + 1 \in Nat /\ to <= Word /\ taken < to
  BY <1>2 DEF CutWord, Rest
<1>4. Here' = <<blk, snt, wrd, to + 1>>
  BY <1>1 DEF CutWord, Here
<1>5. pieces' = Append(flushed, p) /\ piece' = Nothing
  BY DEF CutWord
<1> HIDE DEF to
<1>6. /\ \A x : x \in WordPart(blk, snt, wrd, taken, to) <=>
           /\ x \in Places /\ IsOf(Section, x)
           /\ x[1] = blk /\ x[2] = snt /\ x[3] = wrd /\ taken < x[4] /\ x[4] <= to
      /\ \A x \in WordPart(blk, snt, wrd, taken, to) : ~Before(x, Here)
  BY <1>1, <1>3, PartInHand
<1>7. p \in Pieces /\ p.text = WordPart(blk, snt, wrd, taken, to)
  BY <1>2, <1>6 DEF Piece, Pieces
<1> HIDE DEF p, flushed
<1>8. \A x \in p.text : x \in Places /\ IsOf(Section, x) /\ ~Before(x, Here)
  BY <1>6, <1>7
<1>9. flushed \in Seq(Pieces) /\ TextIn(flushed) = TextIn(Line) /\ Ordered(flushed)
  <2>1. pieces \in Seq(Pieces) /\ piece \in Pieces /\ (piece = Nothing \/ piece.length > 0)
    BY DEF IInv, TypeOK, PiecesFit, Fine
  <2>2. Ordered(Append(pieces, piece))
    BY <1>1 DEF KInv, Kept, Line
  <2> QED
    BY <2>1, <2>2, LineFlushed DEF flushed, Line
<1>10. Precedes(TextIn(flushed), p.text)
  <2>1. TextIn(Line) \subseteq Passed
    BY <1>1 DEF KInv, Kept
  <2> QED
    BY <1>1, <1>8, <1>9, <2>1, AroundPlace, HereTyped DEF Passed, Precedes
<1>11. Ordered(Line)' /\ TextIn(Line)' = TextIn(Line) \cup p.text
  <2>1. Append(flushed, p) \in Seq(Pieces) /\ Ordered(Append(flushed, p))
        /\ TextIn(Append(flushed, p)) = TextIn(Line) \cup p.text
    BY <1>7, <1>9, <1>10, OrderedIfAppended, TextOfMany
  <2>2. Nothing \in Pieces /\ Nothing.text = {}
    BY DEF Nothing, Piece, Pieces
  <2>3. Line' = Append(Append(flushed, p), Nothing)
    BY <1>5 DEF Line
  <2>4. Ordered(Append(Append(flushed, p), Nothing))
        /\ TextIn(Append(Append(flushed, p), Nothing)) = TextIn(Line) \cup p.text
    BY <2>1, <2>2, OrderedIfAppended, TextOfMany DEF Precedes
  <2> QED
    BY <2>3, <2>4
<1>12. ASSUME NEW x \in Places, IsOf(Section, x)
       PROVE  Before(x, Here)' <=> (Before(x, Here) \/ x \in p.text)
  <2>1. Before(x, Here)' <=> Before(x, Here')
    BY DEF Before
  <2>2. Before(x, Here') <=> Lies(x, blk, snt, wrd, to + 1)
    BY <1>2, <1>3, <1>4, Placed
  <2>3. Before(x, Here) <=> Lies(x, blk, snt, wrd, taken + 1)
    BY <1>2, Placed
  <2>4. x[1] \in Nat /\ x[2] \in Nat /\ x[3] \in Nat /\ x[4] \in Nat
    BY PlaceNumbers
  <2>5. x \in p.text <=> x[1] = blk /\ x[2] = snt /\ x[3] = wrd /\ taken < x[4] /\ x[4] <= to
    BY <1>6, <1>7, <1>12
  <2> QED
    BY <1>2, <1>3, <2>1, <2>2, <2>3, <2>4, <2>5 DEF Lies
<1>13. Here' \in Places
  BY <1>2, <1>3, <1>4 DEF Places
<1> QED
  BY <1>1, <1>8, <1>11, <1>12, <1>13, LineGrows

LEMMA PackKeeps == ASSUME IInv, KInv, Pack PROVE KInv'
<1> DEFINE p == Head(pieces)
           t == Tail(pieces)
<1>1. /\ TypeOK /\ InSection /\ InSection' /\ piece = Nothing
      /\ UNCHANGED <<resume, pc, sec, blk, snt, wrd, taken, piece, drafts>>
  BY DEF IInv, NoneLeft, Pack, InSection, place
<1>2. Nothing \in Pieces /\ Nothing.text = {} /\ <<>> \in Seq(Pieces)
  BY DEF Nothing, Piece, Pieces
<1>3. /\ pieces \in Seq(Pieces) /\ pieces # <<>> /\ content \in Chunks /\ contents \in Seq(Chunks)
      /\ content.pieces \in Seq(Pieces) /\ content.section = sec
  BY <1>1 DEF IInv, TypeOK, Pack, Chunks, ChunksFit, InSection
<1>4. Ordered(pieces) /\ TextIn(Line) = TextIn(pieces)
  BY <1>1, <1>2, <1>3, OrderedIfAppended, TextOfMany DEF KInv, Kept, Line
<1>5. /\ p \in Pieces /\ t \in Seq(Pieces) /\ Ordered(t) /\ Precedes(p.text, TextIn(t))
      /\ TextIn(pieces) = p.text \cup TextIn(t)
  BY <1>3, <1>4, OrderedTail
<1>6. pieces' = t
  BY DEF Pack
<1>7. \/ content' = Extended(content, p) /\ contents' = contents
      \/ content' = Extended(Bare(sec, Header), p) /\ contents' = Append(contents, content)
  BY DEF Pack
<1> HIDE DEF p, t
<1>8. Ordered(Line)' /\ TextIn(Line)' = TextIn(t)
  <2>1. Line' = Append(t, Nothing)
    BY <1>1, <1>6 DEF Line
  <2> QED
    BY <1>2, <1>5, <2>1, OrderedIfAppended, TextOfMany DEF Precedes
<1>9. /\ \A c \in Range(contents) : c.section = sec
      /\ ChunksOrdered(contents) /\ Ordered(content.pieces)
      /\ Precedes(PackedIn(contents), TextIn(content.pieces))
      /\ Precedes(Laid, p.text) /\ Precedes(Laid, TextIn(t))
      /\ Laid \cup (p.text \cup TextIn(t)) = Passed
  BY <1>1, <1>4, <1>5 DEF KInv, Kept, Precedes
<1>10. /\ \A c \in Range(contents') : c.section = sec
       /\ ChunksOrdered(contents') /\ Ordered(content'.pieces)
       /\ Precedes(PackedIn(contents'), TextIn(content'.pieces))
       /\ PackedIn(contents') \cup TextIn(content'.pieces) = Laid \cup p.text
  <2>1. CASE content' = Extended(content, p) /\ contents' = contents
    <3>1. content'.pieces = Append(content.pieces, p)
      BY <2>1 DEF Extended
    <3>2. TextIn(content'.pieces) = TextIn(content.pieces) \cup p.text
      BY <1>3, <1>5, <3>1, TextOfMany
    <3>3. Precedes(TextIn(content.pieces), p.text) /\ Precedes(PackedIn(contents), p.text)
      BY <1>9 DEF Laid, Precedes
    <3>4. Ordered(content'.pieces)
      BY <1>3, <1>5, <1>9, <3>1, <3>3, OrderedIfAppended
    <3>5. Precedes(PackedIn(contents), TextIn(content'.pieces))
      BY <1>9, <3>2, <3>3 DEF Precedes
    <3> QED
      BY <1>9, <2>1, <3>2, <3>4, <3>5 DEF Laid
  <2>2. CASE content' = Extended(Bare(sec, Header), p) /\ contents' = Append(contents, content)
    <3>1. content'.pieces = Append(<<>>, p)
      BY <2>2 DEF Extended, Bare
    <3>2. TextIn(content'.pieces) = p.text
      <4>1. TextIn(Append(<<>>, p)) = TextIn(<<>>) \cup p.text /\ TextIn(<<>>) = {}
        BY <1>2, <1>5, TextOfMany
      <4> QED
        BY <3>1, <4>1
    <3>3. Ordered(<<>>) /\ Precedes(TextIn(<<>>), p.text)
      BY <1>2, <1>5, TextOfMany DEF Ordered, Precedes
    <3>4. Ordered(content'.pieces)
      BY <1>2, <1>5, <3>1, <3>3, OrderedIfAppended
    <3>5. PackedIn(contents') = Laid
      BY <1>3, <2>2, PackedOfMany DEF Laid
    <3>6. ChunksOrdered(contents')
      BY <1>3, <1>9, <2>2, ChunksAppended
    <3>7. Range(contents') = Range(contents) \cup {content}
      BY <1>3, <2>2, RangeAppend
    <3> QED
      BY <1>3, <1>9, <3>2, <3>4, <3>5, <3>6, <3>7
  <2> QED
    BY <1>7, <2>1, <2>2
<1>11. Laid' = Laid \cup p.text
  BY <1>10 DEF Laid
<1>12. Passed' = Passed
  <2>1. Here' = Here /\ Section' = Section
    BY <1>1 DEF Here, Section
  <2> QED
    BY <2>1 DEF Passed
<1>13. Precedes(Laid, TextIn(Line))'
  <2>1. Precedes(Laid \cup p.text, TextIn(t))
    BY <1>5, <1>9 DEF Precedes
  <2> QED
    BY <1>8, <1>11, <2>1 DEF Precedes
<1>14. Kept'
  <2>1. (Laid \cup TextIn(Line) = Passed)'
    BY <1>8, <1>9, <1>11, <1>12
  <2> QED
    BY <1>1, <1>8, <1>10, <1>13, <2>1 DEF Kept
<1>15. Drafted'
  BY <1>1 DEF KInv, Drafted, NothingLost, PackedText, TextOf
<1> QED
  BY <1>14, <1>15 DEF KInv

LEMMA BeginSectionKeeps == ASSUME IInv, KInv, BeginSection PROVE KInv'
<1>1. /\ TypeOK /\ piece = Nothing /\ pieces = <<>>
      /\ UNCHANGED <<resume, sec, piece, pieces, drafts>>
      /\ contents' = <<>> /\ content'.pieces = <<>>
  BY DEF IInv, NoneLeft, BeginSection, Bare
<1>2. Section' = Section /\ Section \in Entries
  <2>1. sec \in DOMAIN Sections(resume)
    BY <1>1, SectionsTyped DEF BeginSection, TypeOK
  <2> QED
    BY <1>1, <2>1, SectionsTyped DEF Section, TypeOK
<1>3. Passed' = {}
  <2> SUFFICES ASSUME NEW x \in Places, IsOf(Section, x), Before(x, Here') PROVE FALSE
    BY <1>2 DEF Passed, Before
  <2>1. Here' = <<1, 0, 0, 0>> /\ 1 \in Nat /\ 0 \in Nat
    BY DEF BeginSection, Here
  <2>2. Lies(x, 1, 0, 0, 0)
    BY <2>1, Placed
  <2>3. x[1] \in DOMAIN Section.blocks
    BY DEF IsOf
  <2>4. x[1] >= 1
    BY <1>2, <2>3 DEF Entries
  <2>5. x[1] \in Nat /\ x[2] \in Nat /\ x[3] \in Nat /\ x[4] \in Nat
    BY PlaceNumbers
  <2> QED
    BY <2>2, <2>4, <2>5 DEF Lies
<1>4. Nothing \in Pieces /\ Nothing.text = {} /\ <<>> \in Seq(Pieces)
  BY DEF Nothing, Piece, Pieces
<1>5. Line' = Append(<<>>, Nothing)
  BY <1>1 DEF Line
<1>6. TextIn(<<>>) = {} /\ PackedIn(<<>>) = {} /\ Ordered(<<>>) /\ ChunksOrdered(<<>>)
      /\ Range(<<>>) = {}
  BY RangeEmpty DEF TextIn, PackedIn, Ordered, ChunksOrdered
<1>7. Ordered(Line)' /\ TextIn(Line)' = {}
  <2>1. Ordered(Append(<<>>, Nothing)) /\ TextIn(Append(<<>>, Nothing)) = {}
    BY <1>4, <1>6, OrderedIfAppended, TextOfMany DEF Precedes
  <2> QED
    BY <1>5, <2>1
<1>8. Laid' = {}
  BY <1>1, <1>6 DEF Laid
<1>9. Kept'
  <2>1. Precedes(Laid, TextIn(Line))' /\ Precedes(PackedIn(contents'), TextIn(content'.pieces))
    BY <1>1, <1>6, <1>8 DEF Precedes
  <2> QED
    BY <1>1, <1>3, <1>6, <1>7, <1>8, <2>1 DEF Kept
<1>10. Drafted'
  BY <1>1 DEF KInv, Drafted, NothingLost, PackedText, TextOf
<1> QED
  BY <1>9, <1>10 DEF KInv

LEMMA EndSectionKeeps == ASSUME IInv, KInv, EndSection PROVE KInv'
<1> DEFINE new == Append(contents, content)
<1>1. /\ TypeOK /\ InSection /\ ~InSection' /\ piece = Nothing /\ pieces = <<>> /\ pc = "block"
      /\ resume' = resume /\ sec' = sec + 1 /\ drafts' = drafts \o new
  BY DEF IInv, NoneLeft, EndSection, InSection
<1>2. /\ drafts \in Seq(Chunks) /\ contents \in Seq(Chunks) /\ content \in Chunks /\ new \in Seq(Chunks)
      /\ content.section = sec /\ sec \in Nat
  BY <1>1, InHand, SectionsTyped DEF IInv, TypeOK, ChunksFit, InSection
<1>3. Nothing \in Pieces /\ Nothing.text = {} /\ <<>> \in Seq(Pieces)
  BY DEF Nothing, Piece, Pieces
<1>4. TextIn(Line) = {}
  BY <1>1, <1>3, TextOfMany DEF Line
<1>5. /\ \A c \in Range(contents) : c.section = sec
      /\ ChunksOrdered(contents) /\ Ordered(content.pieces)
      /\ Precedes(PackedIn(contents), TextIn(content.pieces))
      /\ Laid = Passed
  BY <1>1, <1>4 DEF KInv, Kept
<1>6. ChunksOrdered(new)
  BY <1>2, <1>5, ChunksAppended
<1>7. Range(new) = Range(contents) \cup {content}
  BY <1>2, RangeAppend
<1>8. \A c \in Range(new) : c.section = sec
  BY <1>2, <1>5, <1>7
<1>9. \A c \in Range(drafts) : c.section < sec /\ c.section \in Nat
  <2>1. \A c \in Range(drafts) : c \in Chunks
    BY <1>2 DEF Range
  <2> QED
    BY <2>1 DEF KInv, Drafted, Chunks
<1>10. PackedIn(new) = TextOf(sec)
  <2>1. PackedIn(new) = Laid
    BY <1>2, PackedOfMany DEF Laid
  <2>2. Section \in Entries /\ Section.blocks \in Seq(Blocks)
    BY <1>1, InHand
  <2>3. Here = <<blk, 0, 0, 0>> /\ blk \in Nat /\ 0 \in Nat /\ blk > Len(Section.blocks)
    BY <1>1 DEF Here, TypeOK, Positive, EndSection
  <2>4. ASSUME NEW x \in Places, IsOf(Section, x) PROVE Before(x, Here)
    <3>1. x[1] <= Len(Section.blocks) /\ Len(Section.blocks) \in Nat
      BY <1>1, <2>2, <2>4, OfSection
    <3>2. x[1] \in Nat
      BY PlaceNumbers
    <3>3. Lies(x, blk, 0, 0, 0)
      BY <2>3, <3>1, <3>2 DEF Lies
    <3> QED
      BY <2>3, <3>3, Placed
  <2>5. \A x : x \in Passed <=> IsOf(Section, x)
    BY <2>4 DEF Passed, IsOf
  <2>6. \A x : x \in TextOf(sec) <=> IsOf(Section, x)
    BY <2>2, InText DEF Section
  <2> QED
    BY <1>5, <2>1, <2>5, <2>6
<1> HIDE DEF new
<1>11. Range(drafts') = Range(drafts) \cup Range(new)
  BY <1>1, <1>2, RangeConcat
<1>12. ChunksOrdered(drafts')
  <2>1. \A k \in DOMAIN drafts, l \in DOMAIN new : drafts[k].section # new[l].section
    <3>1. \A k \in DOMAIN drafts : drafts[k] \in Range(drafts)
      BY DEF Range
    <3>2. \A l \in DOMAIN new : new[l] \in Range(new)
      BY DEF Range
    <3> QED
      BY <1>2, <1>8, <1>9, <3>1, <3>2
  <2>2. ChunksOrdered(drafts)
    BY DEF KInv, Drafted
  <2> QED
    BY <1>1, <1>2, <1>6, <2>1, <2>2, ChunksFollow
<1>13. \A c \in Range(drafts') : c.section < sec'
  BY <1>1, <1>2, <1>8, <1>9, <1>11
<1>14. NothingLost'
  <2> SUFFICES ASSUME NEW s \in 1 .. sec' - 1 PROVE PackedText(s)' = TextOf(s)'
    BY DEF NothingLost
  <2>1. TextOf(s)' = TextOf(s)
    BY <1>1 DEF TextOf
  <2>2. PackedText(s)' =
           UNION {UNION {p.text : p \in Range(c.pieces)} :
                     c \in {c \in Range(drafts) \cup Range(new) : c.section = s}}
    BY <1>11 DEF PackedText
  <2>3. CASE s = sec
    <3>1. {c \in Range(drafts) \cup Range(new) : c.section = s} = Range(new)
      BY <1>2, <1>8, <1>9, <2>3
    <3>2. PackedText(s)' = PackedIn(new)
      BY <2>2, <3>1 DEF PackedIn, TextIn
    <3> QED
      BY <1>10, <2>1, <2>3, <3>2
  <2>4. CASE s # sec
    <3>1. {c \in Range(drafts) \cup Range(new) : c.section = s} = {c \in Range(drafts) : c.section = s}
      BY <1>8, <2>4
    <3>2. PackedText(s)' = PackedText(s)
      BY <2>2, <3>1 DEF PackedText
    <3>3. s \in 1 .. sec - 1
      BY <1>1, <1>2, <2>4
    <3>4. PackedText(s) = TextOf(s)
      BY <3>3 DEF KInv, Drafted, NothingLost
    <3> QED
      BY <2>1, <3>2, <3>4
  <2> QED
    BY <2>3, <2>4
<1>15. Drafted'
  BY <1>12, <1>13, <1>14 DEF Drafted
<1>16. Kept'
  BY <1>1 DEF Kept
<1> QED
  BY <1>15, <1>16 DEF KInv

LEMMA ReturnKeeps == ASSUME IInv, KInv, Return PROVE KInv'
<1>1. Kept'
  BY DEF Return, Kept, InSection
<1>2. Drafted'
  BY DEF KInv, Return, Drafted, NothingLost, PackedText, TextOf, place, packed
<1> QED
  BY <1>1, <1>2 DEF KInv

LEMMA StutterKeeps == ASSUME KInv, UNCHANGED vars PROVE KInv'
<1>1. UNCHANGED <<resume, pc, sec, blk, snt, wrd, taken, piece, pieces, content, contents, drafts>>
  BY DEF vars, place, packed
<1>2. Passed' = Passed /\ Laid' = Laid /\ Line' = Line
  <2>1. Here' = Here /\ Section' = Section
    BY <1>1 DEF Here, Section
  <2> QED
    BY <1>1, <2>1 DEF Passed, Laid, Line
<1>3. Kept'
  BY <1>1, <1>2 DEF KInv, Kept, InSection
<1>4. Drafted'
  BY <1>1 DEF KInv, Drafted, NothingLost, PackedText, TextOf
<1> QED
  BY <1>3, <1>4 DEF KInv

LEMMA InitKeeps == Init => KInv
<1> SUFFICES ASSUME Init PROVE KInv
  OBVIOUS
<1>1. Kept
  BY DEF Init, Kept, InSection
<1>2. drafts = <<>> /\ sec = 1
  BY DEF Init
<1>3. Drafted
  BY <1>2, RangeEmpty DEF Drafted, ChunksOrdered, NothingLost
<1> QED
  BY <1>1, <1>3 DEF KInv

LEMMA KeptInductive == Spec => []KInv
<1>1. IInv /\ KInv /\ [Next]_vars => KInv'
  <2> SUFFICES ASSUME IInv, KInv, [Next]_vars PROVE KInv'
    OBVIOUS
  <2>1. CASE BeginSection BY <2>1, BeginSectionKeeps
  <2>2. CASE Return BY <2>2, ReturnKeeps
  <2>3. CASE WholeBlock BY <2>3, WholeBlockKeeps
  <2>4. CASE LongBlock BY <2>4, LongBlockKeeps
  <2>5. CASE EndSection BY <2>5, EndSectionKeeps
  <2>6. CASE TakeSentence BY <2>6, TakeSentenceKeeps
  <2>7. CASE LongSentence BY <2>7, LongSentenceKeeps
  <2>8. CASE EndBlock BY <2>8, EndBlockKeeps
  <2>9. CASE CutWord BY <2>9, CutWordKeeps
  <2>10. CASE TakeWord BY <2>10, TakeWordKeeps
  <2>11. CASE EndSentence BY <2>11, EndSentenceKeeps
  <2>12. CASE Pack BY <2>12, PackKeeps
  <2>13. CASE NextBlock BY <2>13, NextBlockKeeps
  <2>14. CASE Done BY <2>14, StutterKeeps DEF Done
  <2>15. CASE UNCHANGED vars BY <2>15, StutterKeeps
  <2> QED
    BY <2>1, <2>2, <2>3, <2>4, <2>5, <2>6, <2>7, <2>8, <2>9, <2>10, <2>11,
       <2>12, <2>13, <2>14, <2>15 DEF Next
<1> QED
  BY <1>1, InitKeeps, Inductive, PTL DEF Spec

LEMMA DraftsInOrder ==
    ASSUME drafts \in Seq(Chunks), ChunksOrdered(drafts)
    PROVE  InOrder
<1> SUFFICES ASSUME NEW k \in DOMAIN drafts, NEW i \in DOMAIN drafts[k].pieces
             PROVE  /\ \A j \in i + 1 .. Len(drafts[k].pieces) :
                          AllBefore(drafts[k].pieces[i], drafts[k].pieces[j])
                    /\ \A l \in k + 1 .. Len(drafts) :
                          drafts[l].section = drafts[k].section =>
                              \A j \in DOMAIN drafts[l].pieces :
                                  AllBefore(drafts[k].pieces[i], drafts[l].pieces[j])
  BY DEF InOrder
<1>1. \A l \in DOMAIN drafts : drafts[l] \in Chunks /\ drafts[l].pieces \in Seq(Pieces)
  <2>1. \A l \in DOMAIN drafts : drafts[l] \in Chunks
    OBVIOUS
  <2> QED
    BY <2>1 DEF Chunks
<1>2. ASSUME NEW j \in i + 1 .. Len(drafts[k].pieces)
      PROVE  AllBefore(drafts[k].pieces[i], drafts[k].pieces[j])
  <2>1. j \in DOMAIN drafts[k].pieces /\ i < j
    BY <1>1
  <2>2. Ordered(drafts[k].pieces)
    BY DEF ChunksOrdered
  <2> QED
    BY <2>1, <2>2 DEF Ordered, Precedes, AllBefore
<1>3. ASSUME NEW l \in k + 1 .. Len(drafts), drafts[l].section = drafts[k].section,
             NEW j \in DOMAIN drafts[l].pieces
      PROVE  AllBefore(drafts[k].pieces[i], drafts[l].pieces[j])
  <2>1. l \in DOMAIN drafts /\ k < l
    OBVIOUS
  <2>2. Precedes(TextIn(drafts[k].pieces), TextIn(drafts[l].pieces))
    BY <1>3, <2>1 DEF ChunksOrdered
  <2>3. drafts[k].pieces[i] \in Range(drafts[k].pieces) /\ drafts[l].pieces[j] \in Range(drafts[l].pieces)
    BY DEF Range
  <2> QED
    BY <2>2, <2>3 DEF Precedes, TextIn, AllBefore
<1> QED
  BY <1>2, <1>3

LEMMA LeastNumber ==
    ASSUME NEW S \in SUBSET Nat, S # {}
    PROVE  \E x \in S : \A y \in S : x <= y
<1>1. PICK R : R = OpToRel(<, Nat)
  OBVIOUS
<1>2. IsWellFoundedOn(R, Nat)
  BY <1>1, NatLessThanWellFounded
<1>3. \A x, y \in Nat : <<y, x>> \in R <=> y < x
  BY <1>1 DEF OpToRel
<1>4. PICK x \in S : \A y \in S : ~(<<y, x>> \in R)
  BY <1>2, WFMin
<1>5. ASSUME NEW y \in S PROVE x <= y
  <2>1. ~(y < x)
    BY <1>3, <1>4
  <2> QED
    BY <2>1
<1> QED
  BY <1>5

-----------------------------------------------------------------------------
(* The embeddings.                                                          *)

\* What grows from number to number, up to the last, is the number itself.
LEMMA GrowingIsCounting ==
    ASSUME NEW n \in Nat, NEW g \in [1..n -> 1..n],
           \A i, j \in 1..n : i < j => g[i] < g[j]
    PROVE  \A i \in 1..n : g[i] = i
<1>1. \A i \in 1..n : g[i] \in 1..n
  OBVIOUS
<1>2. \A i \in 1..n : g[i] >= i
  <2> SUFFICES ASSUME NEW k \in 1..n, g[k] < k PROVE FALSE
    BY <1>1
  <2> DEFINE S == {i \in 1..n : g[i] < i}
  <2>1. S \in SUBSET Nat /\ S # {}
    OBVIOUS
  <2>2. PICK i \in S : \A j \in S : i <= j
    BY <2>1, LeastNumber
  <2>3. i \in 1..n /\ g[i] < i /\ g[i] \in 1..n
    BY <1>1, <2>2
  <2>4. g[g[i]] < g[i]
    BY <2>3
  <2>5. g[i] \in S
    BY <2>3, <2>4
  <2> QED
    BY <2>2, <2>3, <2>5
<1>3. \A i \in 1..n : g[i] <= i
  <2> SUFFICES ASSUME NEW k \in 1..n, g[k] > k PROVE FALSE
    BY <1>1
  <2> DEFINE S == {d \in 0..n : n - d \in 1..n /\ g[n - d] > n - d}
  <2>1. S \in SUBSET Nat /\ S # {}
    <3>1. n - k \in 0..n /\ n - (n - k) = k
      OBVIOUS
    <3>2. n - k \in S
      BY <3>1
    <3>3. S \subseteq Nat
      OBVIOUS
    <3> QED
      BY <3>2, <3>3
  <2>2. PICK d \in S : \A e \in S : d <= e
    BY <2>1, LeastNumber
  <2>3. n - d \in 1..n /\ g[n - d] > n - d /\ g[n - d] \in 1..n /\ d \in 0..n
    BY <1>1, <2>2
  <2>4. g[g[n - d]] > g[n - d]
    BY <1>1, <2>3
  <2> DEFINE e == n - g[n - d]
  <2>5. e \in 0..n /\ n - e = g[n - d] /\ e < d
    BY <2>3
  <2>6. e \in S
    BY <2>3, <2>4, <2>5
  <2> QED
    BY <2>2, <2>3, <2>5, <2>6
<1> QED
  BY <1>1, <1>2, <1>3

\* A response whose items are numbered, in whatever order.
Numbered(r, n) ==
    /\ DOMAIN r = 1..n
    /\ \A i \in 1..n : r[i].index \in 1..n
    /\ \A i, j \in 1..n : i # j => r[i].index # r[j].index

\* Sorting puts every item at its number.
LEMMA SortedByNumber ==
    ASSUME NEW n \in Nat, NEW r, Numbered(r, n), provider = "openai"
    PROVE  \E at \in [1..n -> 1..n] :
              /\ \A i \in 1..n : r[at[i]].index = i
              /\ Returned(r) = [i \in 1..n |-> r[at[i]].embedding]
<1> DEFINE index == [i \in 1..n |-> r[i].index]
           Sorts(f) == \A i, j \in 1..n : i < j => r[f[i]].index < r[f[j]].index
<1>1. IsFiniteSet(1..n) /\ Cardinality(1..n) = n
  BY FS_Interval
<1>2. index \in [1..n -> 1..n] /\ \A i, j \in 1..n : index[i] = index[j] => i = j
  BY DEF Numbered
<1>3. index \in Injection(1..n, 1..n)
  BY <1>2 DEF Injection, IsInjective
<1> HIDE DEF index
<1>4. index \in Surjection(1..n, 1..n)
  BY <1>1, <1>3, FS_Injection
<1>5. \A i \in 1..n : \E k \in 1..n : index[k] = i
  BY <1>2, <1>4 DEF Surjection
<1> DEFINE position == [i \in 1..n |-> CHOOSE k \in 1..n : index[k] = i]
<1>6. \A i \in 1..n : position[i] \in 1..n /\ index[position[i]] = i
  BY <1>5
<1> HIDE DEF position
<1>7. position \in [1..n -> 1..n] /\ Sorts(position)
  <2>1. position \in [1..n -> 1..n]
    BY <1>6 DEF position
  <2>2. \A i \in 1..n : r[position[i]].index = i
    BY <1>6 DEF index
  <2> QED
    BY <2>1, <2>2
<1> DEFINE at == CHOOSE f \in [1..n -> 1..n] : Sorts(f)
<1>8. at \in [1..n -> 1..n] /\ Sorts(at)
  BY <1>7
<1>9. Returned(r) = [i \in 1..n |-> r[at[i]].embedding]
  BY DEF Returned, Numbered
<1> HIDE DEF at
<1>10. \A i \in 1..n : r[at[i]].index = i
  <2> DEFINE g == [i \in 1..n |-> r[at[i]].index]
  <2>1. g \in [1..n -> 1..n]
    BY <1>8 DEF Numbered
  <2>2. \A i, j \in 1..n : i < j => g[i] < g[j]
    BY <1>8
  <2> HIDE DEF g
  <2>3. \A i \in 1..n : g[i] = i
    BY <2>1, <2>2, GrowingIsCounting
  <2> QED
    BY <2>3 DEF g
<1> QED
  BY <1>8, <1>9, <1>10

\* The items of a response are those asked for.
Answering(r, n, batch) ==
    /\ Numbered(r, n)
    /\ \A i \in 1..n :
          r[i] = [index |-> r[i].index,
                  embedding |-> Vector(batch[r[i].index], Dimension, TRUE)]
    /\ provider = "ollama" => \A i \in 1..n : r[i].index = i

LEMMA ResponsesNumber ==
    ASSUME NEW n \in Nat, NEW batch, DOMAIN batch = 1..n,
           provider \in {"openai", "ollama"}, NEW r \in Responses(batch)
    PROVE  Answering(r, n, batch)
<1> DEFINE item == [i \in 1..n |-> [index |-> i, embedding |-> Vector(batch[i], Dimension, TRUE)]]
<1>1. CASE provider = "ollama"
  <2>1. r = item
    BY <1>1 DEF Responses
  <2> QED
    BY <1>1, <2>1 DEF Numbered, Answering
<1>2. CASE provider = "openai"
  <2>1. IsFiniteSet(1..n) /\ Cardinality(1..n) = n
    BY FS_Interval
  <2>2. Items(batch) = {item[i] : i \in 1..n}
    BY DEF Items
  <2>3. \A i \in 1..n : item[i].index = i
        /\ item[i] = [index |-> i, embedding |-> Vector(batch[i], Dimension, TRUE)]
    OBVIOUS
  <2> HIDE DEF item
  <2>4. item \in Bijection(1..n, Items(batch))
    <3>1. item \in [1..n -> Items(batch)]
      BY <2>2 DEF item
    <3>2. \A i, j \in 1..n : item[i] = item[j] => i = j
      BY <2>3
    <3>3. \A t \in Items(batch) : \E i \in 1..n : item[i] = t
      BY <2>2
    <3> QED
      BY <3>1, <3>2, <3>3 DEF Bijection, Injection, Surjection, IsInjective
  <2>5. Cardinality(Items(batch)) = n
    BY <2>1, <2>4, FS_Bijection DEF ExistsBijection
  <2>6. r \in [1..n -> Items(batch)] /\ \A i, j \in 1..n : i # j => r[i] # r[j]
    BY <1>2, <2>5 DEF Responses, SetToSeqs
  <2>7. \A i \in 1..n : \E k \in 1..n : r[i] = item[k]
    BY <2>2, <2>6
  <2>8. \A i \in 1..n : r[i].index \in 1..n /\ r[i] = item[r[i].index]
    <3> SUFFICES ASSUME NEW i \in 1..n PROVE r[i].index \in 1..n /\ r[i] = item[r[i].index]
      OBVIOUS
    <3>1. PICK k \in 1..n : r[i] = item[k]
      BY <2>7
    <3>2. item[k].index = k
      BY <2>3
    <3> QED
      BY <3>1, <3>2
  <2>9. Numbered(r, n)
    BY <2>6, <2>8 DEF Numbered
  <2> QED
    <3>1. \A i \in 1..n :
             r[i] = [index |-> r[i].index,
                     embedding |-> Vector(batch[r[i].index], Dimension, TRUE)]
      <4> SUFFICES ASSUME NEW i \in 1..n
                   PROVE  r[i] = [index |-> r[i].index,
                                  embedding |-> Vector(batch[r[i].index], Dimension, TRUE)]
        OBVIOUS
      <4>1. PICK k : k = r[i].index
        OBVIOUS
      <4>2. k \in 1..n /\ r[i] = item[k]
        BY <2>8, <4>1
      <4>3. r[i] = [index |-> k, embedding |-> Vector(batch[k], Dimension, TRUE)]
        BY <2>3, <4>2
      <4> QED
        BY <4>1, <4>3
    <3> QED
      BY <1>2, <2>9, <3>1 DEF Answering
<1> QED
  BY <1>1, <1>2

LEMMA ResponsesAreFunctions ==
    ASSUME NEW n \in Nat, NEW batch, DOMAIN batch = 1..n, NEW r \in Responses(batch),
           DOMAIN r = 1..n
    PROVE  r \in [1..n -> Items(batch)]
<1>1. CASE provider = "openai"
  <2>1. r \in [1 .. Cardinality(Items(batch)) -> Items(batch)]
    BY <1>1 DEF Responses, SetToSeqs
  <2> QED
    BY <2>1
<1>2. CASE provider # "openai"
  <2>1. r = [i \in 1..n |-> [index |-> i, embedding |-> Vector(batch[i], Dimension, TRUE)]]
    BY <1>2 DEF Responses
  <2> QED
    BY <2>1 DEF Items
<1> QED
  BY <1>1, <1>2

\* What comes of a response that is as asked for.
LEMMA GoodReturned ==
    ASSUME NEW n \in Nat, NEW batch, DOMAIN batch = 1..n,
           provider \in {"openai", "ollama"}, NEW r \in Responses(batch)
    PROVE  Returned(r) = [i \in 1..n |-> Vector(batch[i], Dimension, TRUE)]
<1>1. /\ Numbered(r, n) /\ DOMAIN r = 1..n
      /\ \A i \in 1..n :
            r[i].embedding = Vector(batch[r[i].index], Dimension, TRUE)
      /\ provider = "ollama" => \A i \in 1..n : r[i].index = i
  <2>1. Answering(r, n, batch)
    BY ResponsesNumber
  <2>2. ASSUME NEW i \in 1..n
        PROVE  r[i].embedding = Vector(batch[r[i].index], Dimension, TRUE)
    <3>1. PICK k : k = r[i].index
      OBVIOUS
    <3>2. r[i] = [index |-> k, embedding |-> Vector(batch[k], Dimension, TRUE)]
      BY <2>1, <3>1 DEF Answering
    <3> QED
      BY <3>1, <3>2
  <2> QED
    BY <2>1, <2>2 DEF Answering, Numbered
<1>2. CASE provider = "ollama"
  BY <1>1, <1>2 DEF Returned
<1>3. CASE provider = "openai"
  <2>1. PICK at \in [1..n -> 1..n] :
              /\ \A i \in 1..n : r[at[i]].index = i
              /\ Returned(r) = [i \in 1..n |-> r[at[i]].embedding]
    BY <1>1, <1>3, SortedByNumber
  <2>2. \A i \in 1..n : at[i] \in 1..n /\ r[at[i]].embedding = Vector(batch[i], Dimension, TRUE)
    BY <1>1, <2>1
  <2> QED
    BY <2>1, <2>2
<1> QED
  BY <1>2, <1>3

\* What is wrong with one item is seen, wherever it is sorted to.
LEMMA SpoiltIsSeen ==
    ASSUME NEW n \in Nat, NEW batch, provider \in {"openai", "ollama"}, NEW r,
           Numbered(r, n), NEW k \in 1..n,
           ~(r[k].embedding.dimension = Dimension /\ r[k].embedding.finite)
    PROVE  ~Accepted(Returned(r), batch)
<1>1. DOMAIN r = 1..n
  BY DEF Numbered
<1>2. CASE provider = "ollama"
  <2>1. Returned(r) = [i \in 1..n |-> r[i].embedding]
    BY <1>1, <1>2 DEF Returned
  <2>2. k \in DOMAIN Returned(r) /\ Returned(r)[k] = r[k].embedding
    BY <2>1
  <2> QED
    BY <2>2 DEF Accepted
<1>3. CASE provider = "openai"
  <2>1. PICK at \in [1..n -> 1..n] :
              /\ \A i \in 1..n : r[at[i]].index = i
              /\ Returned(r) = [i \in 1..n |-> r[at[i]].embedding]
    BY <1>3, SortedByNumber
  <2>2. PICK i : i = r[k].index
    OBVIOUS
  <2>3. i \in 1..n /\ at[i] \in 1..n /\ r[at[i]].index = r[k].index
    BY <2>1, <2>2 DEF Numbered
  <2>4. at[i] = k
    BY <2>3 DEF Numbered
  <2>5. i \in DOMAIN Returned(r) /\ Returned(r)[i] = r[k].embedding
    BY <2>1, <2>3, <2>4
  <2> QED
    BY <2>5 DEF Accepted
<1> QED
  BY <1>2, <1>3

LEMMA BadRefused ==
    ASSUME NEW n \in Nat \ {0}, NEW batch, DOMAIN batch = 1..n, batch \in Seq(Nat), Len(batch) = n,
           provider \in {"openai", "ollama"}, NEW r \in BadResponses(batch)
    PROVE  ~Accepted(Returned(r), batch)
<1>1. PICK good \in Responses(batch) :
         \/ r = Front(good)
         \/ r = [good EXCEPT ![1].embedding.dimension = @ + 1]
         \/ r = [good EXCEPT ![Len(batch)].embedding.finite = FALSE]
  BY DEF BadResponses
<1>2. /\ Numbered(good, n) /\ DOMAIN good = 1..n
      /\ \A i \in 1..n :
            good[i] = [index |-> good[i].index,
                       embedding |-> Vector(batch[good[i].index], Dimension, TRUE)]
  <2>1. Answering(good, n, batch)
    BY ResponsesNumber
  <2> QED
    BY <2>1 DEF Answering, Numbered
<1>3. 1 \in 1..n /\ n \in 1..n
  OBVIOUS
<1>4. CASE r = Front(good)
  <2>1. good \in Seq({good[i] : i \in 1..n})
    <3>1. good = [i \in 1..n |-> good[i]]
      <4>1. good \in [1..n -> Items(batch)]
        BY <1>2, ResponsesAreFunctions
      <4> QED
        BY <4>1
    <3> QED
      BY <3>1
  <2>2. Len(good) = n
    BY <1>2
  <2>3. DOMAIN r = 1..(n - 1)
    BY <1>4, <2>1, <2>2 DEF Front
  <2>4. DOMAIN Returned(r) = 1..(n - 1)
    BY <2>3 DEF Returned
  <2>5. Len(Returned(r)) = n - 1
    BY <2>3 DEF Returned
  <2> QED
    BY <2>5 DEF Accepted
<1>5. CASE r = [good EXCEPT ![1].embedding.dimension = @ + 1]
  <2>1. /\ DOMAIN r = 1..n
        /\ r[1] = [good[1] EXCEPT !.embedding.dimension = @ + 1]
        /\ \A i \in 1..n : i # 1 => r[i] = good[i]
    BY <1>2, <1>3, <1>5
  <2>2. PICK g : g = good[1]
    OBVIOUS
  <2>3. g = [index |-> g.index, embedding |-> Vector(batch[g.index], Dimension, TRUE)]
    BY <1>2, <1>3, <2>2
  <2>4. r[1].index = g.index /\ r[1].embedding.dimension = Dimension + 1
    BY <2>1, <2>2, <2>3 DEF Vector
  <2>5. \A i \in 1..n : r[i].index = good[i].index
    BY <2>1, <2>2, <2>4
  <2>6. Numbered(r, n)
    BY <1>2, <2>1, <2>5 DEF Numbered
  <2>7. ~(r[1].embedding.dimension = Dimension)
    BY <2>4, IndexingTypes DEF Positive
  <2> QED
    BY <1>3, <2>6, <2>7, SpoiltIsSeen
<1>6. CASE r = [good EXCEPT ![Len(batch)].embedding.finite = FALSE]
  <2>1. /\ DOMAIN r = 1..n
        /\ r[n] = [good[n] EXCEPT !.embedding.finite = FALSE]
        /\ \A i \in 1..n : i # n => r[i] = good[i]
    BY <1>2, <1>3, <1>6
  <2>2. PICK g : g = good[n]
    OBVIOUS
  <2>3. g = [index |-> g.index, embedding |-> Vector(batch[g.index], Dimension, TRUE)]
    BY <1>2, <1>3, <2>2
  <2>4. r[n].index = g.index /\ r[n].embedding.finite = FALSE
    BY <2>1, <2>2, <2>3 DEF Vector
  <2>5. \A i \in 1..n : r[i].index = good[i].index
    BY <2>1, <2>2, <2>4
  <2>6. Numbered(r, n)
    BY <1>2, <2>1, <2>5 DEF Numbered
  <2> QED
    BY <1>3, <2>4, <2>6, SpoiltIsSeen
<1> QED
  BY <1>1, <1>4, <1>5, <1>6

-----------------------------------------------------------------------------
(* The chunks are those of ResumeChunker, and what there is of embeddings   *)
(* is of the first of them, in their order.                                 *)

VectorOf(i) == Vector(i, Dimension, TRUE)

EInv ==
    /\ provider \in {"openai", "ollama"}
    /\ Len(embeddings) \in 0 .. Len(drafts)
    /\ embeddings = [i \in 1 .. Len(embeddings) |-> VectorOf(i)]
    /\ outcome # "none" \/ embeddings # <<>> => pc = "done"
    /\ outcome = "embedded" => Len(embeddings) = Len(drafts)

LEMMA Continued ==
    ASSUME NEW m \in Nat, NEW n \in Nat, NEW s, s = [i \in 1..m |-> VectorOf(i)],
           NEW t, t = [i \in 1..n |-> VectorOf(m + i)]
    PROVE  s \o t = [i \in 1 .. m + n |-> VectorOf(i)]
<1>1. PICK S : S = {VectorOf(i) : i \in 1 .. m + n}
  OBVIOUS
<1>2. s \in Seq(S) /\ Len(s) = m
  <2>1. \A i \in 1..m : i \in 1 .. m + n
    OBVIOUS
  <2>2. s \in [1..m -> S]
    BY <1>1, <2>1
  <2> QED
    BY <2>2
<1>3. t \in Seq(S) /\ Len(t) = n
  <2>1. \A i \in 1..n : m + i \in 1 .. m + n
    OBVIOUS
  <2>2. t \in [1..n -> S]
    BY <1>1, <2>1
  <2> QED
    BY <2>2
<1>4. s \o t \in Seq(S) /\ Len(s \o t) = m + n
  BY <1>2, <1>3
<1>5. ASSUME NEW i \in 1 .. m + n PROVE (s \o t)[i] = VectorOf(i)
  <2>1. CASE i <= m
    BY <1>2, <1>3, <2>1
  <2>2. CASE i > m
    <3>1. i - m \in 1..n /\ m + (i - m) = i
      BY <2>2
    <3>2. (s \o t)[i] = t[i - m]
      BY <1>2, <1>3, <2>2
    <3>3. t[i - m] = VectorOf(m + (i - m))
      BY <3>1
    <3> QED
      BY <3>1, <3>2, <3>3
  <2> QED
    BY <2>1, <2>2
<1> QED
  BY <1>4, <1>5

LEMMA BatchIs ==
    ASSUME EInv, drafts \in Seq(Chunks), Len(embeddings) < Len(drafts)
    PROVE  \E n \in Nat \ {0} :
              /\ n <= Len(drafts) - Len(embeddings)
              /\ Batch = [i \in 1..n |-> Len(embeddings) + i]
              /\ Batch \in Seq(Nat) /\ Len(Batch) = n
<1> DEFINE start == Len(embeddings)
           S == {BatchSize, Len(drafts) - start}
           n == Min(S)
<1>1. start \in Nat /\ Len(drafts) \in Nat /\ BatchSize \in Nat \ {0}
      /\ Len(drafts) - start \in Nat \ {0}
  BY IndexingTypes DEF EInv, Positive
<1>2. \E x \in S : \A y \in S : x <= y
  BY <1>1
<1>3. n \in S /\ \A y \in S : n <= y
  BY <1>2 DEF Min
<1>4. Batch = [i \in 1..n |-> start + i]
  BY DEF Batch
<1>5. n \in Nat \ {0} /\ n <= Len(drafts) - start
  BY <1>1, <1>3
<1> HIDE DEF n
<1>6. Batch \in Seq(Nat) /\ Len(Batch) = n
  BY <1>1, <1>4, <1>5
<1> QED
  BY <1>4, <1>5, <1>6

LEMMA EmbedBatchKeeps ==
    ASSUME EInv, drafts \in Seq(Chunks), EmbedBatch
    PROVE  EInv'
<1>1. /\ pc = "done" /\ outcome = "none" /\ Len(embeddings) < Len(drafts)
      /\ pc' = pc /\ drafts' = drafts /\ provider' = provider
  BY DEF EmbedBatch, vars, packed
<1>2. PICK n \in Nat \ {0} :
         /\ n <= Len(drafts) - Len(embeddings)
         /\ Batch = [i \in 1..n |-> Len(embeddings) + i]
         /\ Batch \in Seq(Nat) /\ Len(Batch) = n
  BY <1>1, BatchIs
<1>3. PICK response \in Responses(Batch) \cup BadResponses(Batch) :
         IF Accepted(Returned(response), Batch)
         THEN embeddings' = embeddings \o Returned(response) /\ UNCHANGED outcome
         ELSE outcome' = "failed" /\ UNCHANGED embeddings
  BY DEF EmbedBatch
<1>4. CASE outcome' = "failed" /\ UNCHANGED embeddings
  BY <1>1, <1>4 DEF EInv
<1>5. CASE /\ Accepted(Returned(response), Batch)
           /\ embeddings' = embeddings \o Returned(response) /\ outcome' = outcome
  <2>1. provider \in {"openai", "ollama"} /\ DOMAIN Batch = 1..n
    BY <1>2 DEF EInv
  <2>2. response \in Responses(Batch)
    BY <1>2, <1>5, <2>1, BadRefused
  <2>3. Returned(response) = [i \in 1..n |-> Vector(Batch[i], Dimension, TRUE)]
    BY <2>1, <2>2, GoodReturned
  <2>4. PICK m : m = Len(embeddings)
    OBVIOUS
  <2>5. embeddings = [i \in 1..m |-> VectorOf(i)] /\ m \in Nat /\ Len(drafts) \in Nat
        /\ n <= Len(drafts) - m
    BY <1>2, <2>4 DEF EInv
  <2>6. PICK vectors : vectors = [i \in 1..n |-> VectorOf(m + i)]
    OBVIOUS
  <2>10. Returned(response) = vectors
    BY <1>2, <2>3, <2>4, <2>6 DEF VectorOf
  <2>11. embeddings \o vectors = [i \in 1 .. m + n |-> VectorOf(i)]
    BY <2>5, <2>6, Continued
  <2>7. embeddings' = [i \in 1 .. m + n |-> VectorOf(i)]
    BY <1>5, <2>10, <2>11
  <2>8. Len(embeddings') = m + n
    BY <2>5, <2>7
  <2>9. m + n \in 0 .. Len(drafts)
    BY <1>2, <2>5
  <2> QED
    BY <1>1, <1>5, <2>1, <2>7, <2>8, <2>9 DEF EInv
<1> QED
  BY <1>3, <1>4, <1>5

\* Embedding leaves the chunks alone.
LEMMA IndexingChunks == IndexingSpec => Spec
<1>1. IndexingInit => Init
  BY DEF IndexingInit
<1>2. [IndexingNext]_<<vars, service>> => [Next]_vars
  BY DEF IndexingNext, EmbedBatch, RequestRaises, ReturnEmbeddings
<1> QED
  BY <1>1, <1>2, PTL DEF IndexingSpec, Spec

LEMMA NextWhenDone ==
    ASSUME EInv, IInv, Next, UNCHANGED service
    PROVE  EInv'
<1>1. CASE pc = "done"
  <2>1. UNCHANGED vars
    BY <1>1 DEF Next, BeginSection, Return, WholeBlock, LongBlock, EndSection, TakeSentence,
                LongSentence, EndBlock, CutWord, TakeWord, EndSentence, Pack, NextBlock, Done
  <2> QED
    BY <2>1 DEF EInv, service, vars, packed
<1>2. CASE pc # "done"
  <2>1. outcome' = "none" /\ embeddings' = <<>> /\ provider' = provider
    BY <1>2 DEF EInv, service
  <2>2. Len(drafts') \in Nat
    <3>1. IInv'
      BY StepKeeps
    <3> QED
      BY <3>1 DEF IInv, TypeOK
  <2>3. <<>> = [i \in 1..0 |-> VectorOf(i)] /\ Len(<<>>) = 0
    OBVIOUS
  <2> QED
    BY <2>1, <2>2, <2>3 DEF EInv
<1> QED
  BY <1>1, <1>2

LEMMA EmbeddingInductive == IndexingSpec => []EInv
<1>1. IndexingInit => EInv
  <2> SUFFICES ASSUME IndexingInit PROVE EInv
    OBVIOUS
  <2>1. drafts = <<>> /\ embeddings = <<>> /\ outcome = "none" /\ provider \in {"openai", "ollama"}
    BY IndexingTypes DEF IndexingInit, Init
  <2>2. <<>> = [i \in 1..0 |-> VectorOf(i)] /\ Len(<<>>) = 0
    OBVIOUS
  <2> QED
    BY <2>1, <2>2 DEF EInv
<1>2. EInv /\ IInv /\ [IndexingNext]_<<vars, service>> => EInv'
  <2> SUFFICES ASSUME EInv, IInv, [IndexingNext]_<<vars, service>> PROVE EInv'
    OBVIOUS
  <2>0. drafts \in Seq(Chunks)
    BY DEF IInv, TypeOK
  <2>1. CASE Next /\ UNCHANGED service
    BY <2>1, NextWhenDone
  <2>2. CASE EmbedBatch
    BY <2>0, <2>2, EmbedBatchKeeps
  <2>3. CASE RequestRaises
    BY <2>3 DEF RequestRaises, EInv, vars, packed
  <2>4. CASE ReturnEmbeddings
    BY <2>4 DEF ReturnEmbeddings, EInv, vars, packed
  <2>5. CASE UNCHANGED <<vars, service>>
    BY <2>5 DEF EInv, vars, packed, service
  <2> QED
    BY <2>1, <2>2, <2>3, <2>4, <2>5 DEF IndexingNext
<1> QED
  BY <1>1, <1>2, IndexingChunks, Inductive, PTL DEF IndexingSpec

-----------------------------------------------------------------------------
(* The theorems.                                                           *)

\* The loops of ResumeChunker stay within what they run over, for every resume
\* and every limit.
THEOREM TypeCorrect == Spec => []TypeOK
  <1>1. IInv => TypeOK
    BY DEF IInv
  <1>2. QED BY <1>1, Inductive, PTL

\* _pack_blocks never returns a chunk beyond the limit when the header leaves
\* room for a character.
THEOREM ChunksAreWithinLimit == Spec => []WithinLimit
  <1>1. IInv => WithinLimit
    BY DEF IInv, ChunksFit, Sound, WithinLimit
  <1>2. QED BY <1>1, Inductive, PTL

\* _pack_blocks never returns a header alone when there is a block and room, and
\* _split_block and _split_words return no empty piece.
THEOREM NothingIsEmpty == Spec => []NothingEmpty
  <1>1. IInv => NoBareChunk
    BY DEF IInv
  <1>2. IInv => NoEmptyPiece
    BY DEF IInv, PiecesFit, Fine, NoEmptyPiece
  <1>3. IInv => NothingEmpty
    BY <1>1, <1>2 DEF NothingEmpty
  <1>4. QED BY <1>3, Inductive, PTL

\* _split_block and _split_words cut nothing that fits into a chunk.
THEOREM FittingTextIsWhole == Spec => []CutsAreForced
  <1>1. IInv => CutsAreForced
    BY DEF IInv, ChunksFit, Sound, CutsAreForced
  <1>2. QED BY <1>1, Inductive, PTL

\* ResumeChunker only divides: the chunks of every section that has been cut hold
\* all of its characters, in their order and none of them twice, wherever the
\* four flushes of an unfinished piece fall (app/ingestion/chunking.py).
THEOREM NoTextIsLostOrMoved == Spec => []TextIsKept
  <1>1. IInv /\ KInv => TextIsKept
    BY DraftsInOrder DEF IInv, TypeOK, KInv, Drafted, TextIsKept
  <1>2. QED BY <1>1, Inductive, KeptInductive, PTL

\* Stored by position, every chunk has the vector of its own text, of the dimension
\* of the column, wherever the batches are cut and in whatever order the service
\* answers (EmbeddingService.embed, app/services/embeddings.py).
THEOREM VectorsAreOfTheirTexts == IndexingSpec => []VectorsMatchTexts
  <1>1. IInv => DOMAIN drafts = 1 .. Len(drafts)
    BY DEF IInv, TypeOK
  <1>2. EInv /\ IInv => VectorsMatchTexts
    BY <1>1 DEF EInv, VectorsMatchTexts, VectorOf
  <1>3. QED BY <1>2, EmbeddingInductive, IndexingChunks, Inductive, PTL

=============================================================================
