---------------------------- MODULE SpeechParser ----------------------------
(***************************************************************************)
(* parse_document of the Voice Presentation Layer: one pass over the lines *)
(* of a reply that collects items, and sections as it meets headings.      *)
(***************************************************************************)
EXTENDS SpeechDocument

CONSTANT MaxLines      \* bound: lines of a reply

VARIABLES
    lines,             \* the lines read so far
    items,
    sections,          \* section_buckets
    heading,           \* current_section: whether there is one
    current            \* current_section_items

reading == <<lines, items, sections, heading, current>>

ParserInit == lines = <<>> /\ items = <<>> /\ sections = <<>> /\ heading = FALSE /\ current = <<>>

\* section_buckets once the current section is closed.
Flushed == IF heading /\ current # <<>> THEN Append(sections, current) ELSE sections

Read(kind) == Len(lines) < MaxLines /\ lines' = Append(lines, kind)

\* Mutated: the new section starts with the items of the old one.
Heading_KeepsItems ==
    /\ \E kind \in Marks : Read(kind) /\ heading' = (kind = "heading")
    /\ sections' = Flushed
    /\ UNCHANGED <<items, current>>

\* A section is closed, and one opened; a heading without a title opens none.
Heading ==
    /\ \E kind \in Marks : Read(kind) /\ heading' = (kind = "heading")
    /\ sections' = Flushed
    /\ current' = <<>>
    /\ UNCHANGED items

Item ==
    /\ \E kind \in {"item", "long"} : Read(kind)
    /\ items' = Append(items, Len(lines'))
    /\ current' = IF heading THEN Append(current, Len(lines')) ELSE current
    /\ UNCHANGED <<sections, heading>>

Text ==
    /\ Read("text")
    /\ UNCHANGED <<items, sections, heading, current>>

Parse == Heading \/ Item \/ Text

ParserSpec == ParserInit /\ [][Parse]_reading

-----------------------------------------------------------------------------
\* Every variable holds a value of its type.
ParserTypeOK ==
    /\ lines \in Seq(LineKinds) /\ Len(lines) <= MaxLines
    /\ items \in Seq(1..Len(lines)) /\ current \in Seq(1..Len(lines))
    /\ sections \in Seq(Seq(1..Len(lines)))
    /\ heading \in BOOLEAN

\* Wherever the reply ends, the pass has found its items, and its sections with
\* the items that stand under them.
FindsSections == items = ItemsOf(lines) /\ Flushed = Sections(lines)

BucketList == Buckets(lines)

\* Groups are at most MaxBuckets, none is empty, they follow the reply's order and
\* share no item, and without sections they leave no item out.
GroupsAreSound ==
    /\ Len(BucketList) <= MaxBuckets
    /\ \A n \in DOMAIN BucketList : BucketList[n] # <<>>
    /\ \A m, n \in DOMAIN BucketList : \A i \in DOMAIN BucketList[m], j \in DOMAIN BucketList[n] :
          BucketList[m][i] < BucketList[n][j] <=> m < n \/ (m = n /\ i < j)
    /\ Flushed = <<>> =>
          \A k \in DOMAIN items : \E n \in DOMAIN BucketList : \E i \in DOMAIN BucketList[n] :
              BucketList[n][i] = items[k]

\* "I found n suggestions in m groups": every item of a reply that is read out in
\* groups is in one of them.
ItemsAreInGroups ==
    Layered(lines, FALSE) =>
        \A k \in DOMAIN items : \E n \in DOMAIN BucketList : \E i \in DOMAIN BucketList[n] :
            BucketList[n][i] = items[k]
=============================================================================
