------------------------------ MODULE Chunking ------------------------------
(***************************************************************************)
(* How services/ingester turns prose into chunks: lines into paragraphs    *)
(* and sections, sections into chunks that overlap, and how retrieval      *)
(* later joins neighbouring chunks again.                                  *)
(*                                                                         *)
(* A text is a sequence of sentences, each with its line, its words and    *)
(* the separator before it: a blank, or a newline where two paragraphs (or *)
(* two sentences of one that was split) were joined.  Every sentence lies  *)
(* in one line, is unlike any other and has at least ten characters.       *)
(***************************************************************************)
EXTENDS Integers, SequencesExt

CONSTANTS
    Format,         \* the kinds of files: "md", "txt", "pdf", "docx" and others
    Line,           \* text lines: sequences of words per sentence
    Title,          \* heading texts
    MaxLines,       \* bound: lines of a file
    Target,         \* CHUNK_TARGET_WORDS
    Ceiling,        \* CHUNK_MAX_WORDS
    Overlap         \* OVERLAP_FRAC * CHUNK_TARGET_WORDS

NoTitle == ""

ASSUME ChunkAssumption ==
    /\ Line \subseteq Seq(Nat \ {0}) \ {<<>>}
    /\ NoTitle \notin Title
    /\ MaxLines \in Nat /\ Target \in Nat /\ Ceiling \in Nat /\ Overlap \in Nat

VARIABLES
    format,
    nr,             \* lines read
    sec, sub,       \* section_title, subsection_title
    para,           \* texts of the lines of the open paragraph
    paraStart,
    blocks,         \* paragraphs of the open section: text, from, to
    sections,       \* closed sections: sec, sub, blocks
    body,           \* history: every sentence that was read, in order
    chunks,         \* chunk_index - 1 -> chunk: title, text, carried, from, to
    parsed          \* the file has been read to its end

heading == <<sec, sub>>
open    == <<para, paraStart, blocks>>
proseVars == <<format, nr, heading, open, sections, body, chunks, parsed>>

ProseInit ==
    /\ format \in Format
    /\ nr = 0 /\ sec = NoTitle /\ sub = NoTitle
    /\ para = <<>> /\ paraStart = 0 /\ blocks = <<>> /\ sections = <<>>
    /\ body = <<>> /\ chunks = <<>> /\ parsed = FALSE

(* Texts. *)
Sentences(ws) == [i \in DOMAIN ws |->
                    [line |-> nr + 1, at |-> i, words |-> ws[i], sep |-> " "]]
Words(text)   == FoldLeft(LAMBDA t, s : t + s.words, 0, text)
Key(text)     == [i \in DOMAIN text |-> <<text[i].line, text[i].at>>]

Join(texts, sep) ==
    FoldLeft(LAMBDA all, t : IF all = <<>> THEN t ELSE all \o [t EXCEPT ![1].sep = sep],
             <<>>, texts)

-----------------------------------------------------------------------------
(***************************************************************************)
(* Reading.  Lines of txt and pdf are never headings; a page break of a    *)
(* pdf is a blank line; in docx every paragraph is a block of its own and  *)
(* cites its ordinal.                                                      *)
(***************************************************************************)
FlushedPara(end) ==
    IF para = <<>> THEN blocks
    ELSE Append(blocks, [text |-> Join(para, " "), from |-> paraStart, to |-> end])

FlushedSection(bs) ==
    IF bs = <<>> THEN sections
    ELSE Append(sections, [sec |-> sec, sub |-> sub, blocks |-> bs])

BugFolded(level, title) ==          \* mutant: the subsection outlives its section
    IF level <= 1 THEN sec' = title /\ UNCHANGED sub ELSE sub' = title /\ UNCHANGED sec
Folded(level, title) ==
    IF level <= 1 \/ sec = NoTitle THEN sec' = title /\ sub' = NoTitle
    ELSE sub' = title /\ UNCHANGED sec

Reading == ~ parsed /\ nr < MaxLines /\ nr' = nr + 1 /\ UNCHANGED <<format, chunks, parsed>>

ReadHeading(level, title) ==
    /\ Reading
    /\ format \in {"md", "docx"}
    /\ sections' = FlushedSection(FlushedPara(nr))
    /\ blocks' = <<>> /\ para' = <<>> /\ paraStart' = 0
    /\ Folded(level, title)
    /\ UNCHANGED body

ReadBlank ==
    /\ Reading
    /\ blocks' = FlushedPara(nr) /\ para' = <<>> /\ paraStart' = 0
    /\ UNCHANGED <<heading, sections, body>>

ReadLine(ws) ==
    /\ Reading /\ format # "docx"
    /\ body' = body \o Sentences(ws)
    /\ para' = Append(para, Sentences(ws))
    /\ paraStart' = IF para = <<>> THEN nr + 1 ELSE paraStart
    /\ UNCHANGED <<heading, blocks, sections>>

ReadParagraph(ws) ==
    /\ Reading /\ format = "docx"
    /\ body' = body \o Sentences(ws)
    /\ blocks' = Append(blocks, [text |-> Sentences(ws), from |-> nr + 1, to |-> nr + 1])
    /\ UNCHANGED <<heading, para, paraStart, sections>>

-----------------------------------------------------------------------------
(***************************************************************************)
(* Packing a section that is over the ceiling: paragraphs, or the          *)
(* sentences of one that is itself over it, go into chunks of about        *)
(* Target words.  A chunk opens with the last sentences of the one before. *)
(***************************************************************************)
Units(bs) ==
    FoldLeft(LAMBDA us, b :
               IF Words(b.text) <= Ceiling THEN Append(us, b)
               ELSE us \o [i \in DOMAIN b.text |->
                             [b EXCEPT !.text = <<[b.text[i] EXCEPT !.sep = " "]>>]],
             <<>>, bs)

BugTailFrom(text) == Max({1, Len(text) - Overlap + 1})   \* mutant: counts sentences
TailFrom(text) ==
    CHOOSE i \in DOMAIN text :
      /\ i = Len(text) \/ Words(SubSeq(text, i, Len(text))) <= Overlap
      /\ i > 1 => Words(SubSeq(text, i - 1, Len(text))) > Overlap

(* Sentences are joined anew, with blanks. *)
OverlapTail(text) ==
    LET tail == SubSeq(text, TailFrom(text), Len(text)) IN
    [i \in DOMAIN tail |-> [tail[i] EXCEPT !.sep = " "]]

Chunk(text, s)    == [text |-> text, carried |-> s.carried, from |-> s.from, to |-> s.to]

Packer == [buf |-> <<>>, words |-> 0, from |-> 0, to |-> 0, carried |-> 0,
           prev |-> <<>>, out |-> <<>>]

Close(s) ==
    LET text == Join(s.buf, "\n") IN
    [s EXCEPT !.buf = <<>>, !.words = 0, !.prev = text,
       !.out = Append(@, Chunk(text, s))]

Opened(s, u) ==
    IF s.buf # <<>> THEN s
    ELSE LET tail == IF s.prev = <<>> THEN <<>> ELSE OverlapTail(s.prev) IN
         [s EXCEPT !.buf = IF tail = <<>> THEN <<>> ELSE <<tail>>,
                   !.words = Words(tail), !.carried = Len(tail), !.from = u.from]

Full(s, u)    == s.buf # <<>> /\ s.words + Words(u.text) > Target

Pack(s, u) ==
    LET t == Opened(IF Full(s, u) THEN Close(s) ELSE s, u) IN
    [t EXCEPT !.buf = Append(@, u.text), !.words = @ + Words(u.text), !.to = u.to]

ChunkBlocks(bs) == Close(FoldLeft(Pack, Packer, Units(bs))).out

(* A section at or under the ceiling is one chunk. *)
Total(bs) == FoldLeft(LAMBDA t, b : t + Words(b.text), 0, bs)
Texts(bs) == [i \in DOMAIN bs |-> bs[i].text]

Pieces(bs) ==
    IF Total(bs) <= Ceiling
    THEN <<[text |-> Join(Texts(bs), "\n"), carried |-> 0,
            from |-> bs[1].from, to |-> bs[Len(bs)].to]>>
    ELSE ChunkBlocks(bs)

WithTitle(title, p) ==
    [title |-> title, text |-> p.text, carried |-> p.carried, from |-> p.from, to |-> p.to]

EmitSections(ss) ==
    FoldLeft(LAMBDA out, s :
               out \o [i \in DOMAIN Pieces(s.blocks) |->
                         WithTitle(<<s.sec, s.sub>>, Pieces(s.blocks)[i])],
             <<>>, ss)

EndOfText ==
    /\ ~ parsed /\ parsed' = TRUE
    /\ sections' = FlushedSection(FlushedPara(nr))
    /\ chunks' = EmitSections(sections')
    /\ blocks' = <<>> /\ para' = <<>> /\ paraStart' = 0
    /\ UNCHANGED <<format, nr, heading, body>>

ProseNext ==
    \/ \E level \in 1 .. 2, title \in Title : ReadHeading(level, title)
    \/ ReadBlank
    \/ \E ws \in Line : ReadLine(ws) \/ ReadParagraph(ws)
    \/ EndOfText

-----------------------------------------------------------------------------
(***************************************************************************)
(* _concat_dedup of services/rag-retrieval: two chunks become one text;    *)
(* the longest end of the first that begins the second is not repeated.    *)
(***************************************************************************)
Same(a, b) == Key(a) = Key(b) /\ \A i \in DOMAIN a : i > 1 => a[i].sep = b[i].sep

Border(a, b) ==
    Max({0} \cup {n \in 1 .. Min({Len(a), Len(b)}) :
                    Same(SubSeq(a, Len(a) - n + 1, Len(a)), SubSeq(b, 1, n))})

ConcatDedup(a, b) == a \o SubSeq(b, Border(a, b) + 1, Len(b))

-----------------------------------------------------------------------------
Fresh(c)   == SubSeq(c.text, c.carried + 1, Len(c.text))
Carried(c) == SubSeq(c.text, 1, c.carried)

(* The type of every variable. *)
ProseTypeOK ==
    /\ format \in Format /\ nr \in 0 .. MaxLines
    /\ sec \in Title \cup {NoTitle} /\ sub \in Title \cup {NoTitle}
    /\ (sub # NoTitle => sec # NoTitle)
    /\ (para = <<>>) <=> (paraStart = 0)
    /\ \A i \in DOMAIN chunks :
         /\ chunks[i].from \in 1 .. nr /\ chunks[i].to \in 1 .. nr
         /\ chunks[i].carried \in 0 .. Len(chunks[i].text) - 1

(* Nothing is lost and nothing is doubled: without what they carry over,   *)
(* the chunks of a file are its sentences, in order, whatever paragraphs,  *)
(* sections and sizes there are; a sentence is never cut.                  *)
NothingLost ==
    parsed => FlattenSeq([i \in DOMAIN chunks |-> Key(Fresh(chunks[i]))]) = Key(body)

(* A chunk cites the lines its own sentences are on; those of another      *)
(* heading are never among them.                                           *)
CitesItsLines ==
    \A i, j \in DOMAIN chunks :
      /\ \A n \in DOMAIN Fresh(chunks[i]) :
           Fresh(chunks[i])[n].line \in chunks[i].from .. chunks[i].to
      /\ i < j /\ chunks[i].title # chunks[j].title => chunks[i].to < chunks[j].from

(* What a chunk carries over is the end of the chunk before it, of the     *)
(* same section, and small: within the overlap budget, or one sentence.    *)
CarriesTheTail ==
    \A i \in DOMAIN chunks : LET c == chunks[i] IN
      c.carried > 0 =>
        /\ i > 1 /\ chunks[i - 1].title = c.title
        /\ IsSuffix(Key(Carried(c)), Key(chunks[i - 1].text))
        /\ c.carried = 1 \/ Words(Carried(c)) <= Overlap

(* The ceiling, as far as it is kept: without what it carries over a chunk *)
(* is at most Ceiling words, or one sentence that is longer by itself; and *)
(* nothing but a first paragraph is added to a chunk beyond the target.    *)
WithinCeiling ==
    \A i \in DOMAIN chunks : LET f == Fresh(chunks[i]) IN
      Words(f) <= Ceiling \/ Len(f) = 1

(* Two chunks of a section are joined without repeating what the second    *)
(* carried over, where that lay in one paragraph of the first.             *)
RejoinsWithoutRepeating ==
    \A i \in DOMAIN chunks \ {1} :
      LET a == chunks[i - 1]
          c == chunks[i]
          border == SubSeq(a.text, Len(a.text) - c.carried + 1, Len(a.text)) IN
      c.carried > 0 /\ (\A n \in 2 .. c.carried : border[n].sep = " ") =>
        Key(ConcatDedup(a.text, c.text)) = Key(a.text) \o Key(Fresh(c))
=============================================================================
