--------------------------- MODULE SpeechDocument ---------------------------
(***************************************************************************)
(* What the Voice Presentation Layer finds in a reply (parser.py): items,  *)
(* and the groups of items it reads out.  These definitions say what the   *)
(* result is; SpeechParser has the loop over the lines that computes it.   *)
(*                                                                         *)
(* A line is a heading, one without a title, an item of a list, an item    *)
(* too long to be spoken in full, or text; an item is known by the number  *)
(* of its line.                                                            *)
(***************************************************************************)
EXTENDS Naturals, Sequences, FiniteSets

CONSTANTS
    MaxBuckets,        \* CZ_VPL_MAX_BUCKETS
    Threshold          \* CZ_VPL_LAYER_THRESHOLD_ITEMS

ASSUME DocumentConstants == {MaxBuckets, Threshold} \subseteq Nat \ {0}

Marks == {"heading", "blank"}
LineKinds == Marks \cup {"item", "long", "text"}

Least(m, n) == IF m <= n THEN m ELSE n

\* The numbers of a set, in increasing order.
InOrder(S) == [i \in 1..Cardinality(S) |-> CHOOSE k \in S : Cardinality({j \in S : j < k}) = i - 1]

ItemLines(lines) == {k \in DOMAIN lines : lines[k] \in {"item", "long"}}

ItemsOf(lines) == InOrder(ItemLines(lines))

\* The items under heading h, which end at the next heading, with a title or without.
Under(lines, h) == {k \in ItemLines(lines) : h < k /\ \A j \in h + 1..k : lines[j] \notin Marks}

SectionItems(lines, h) == InOrder(Under(lines, h))

\* The headings that have a title and items.
Headed(lines) == {h \in DOMAIN lines : lines[h] = "heading" /\ Under(lines, h) # {}}

SectionsOf(lines, headings) ==
    LET order == InOrder(headings) IN [n \in DOMAIN order |-> SectionItems(lines, order[n])]
Sections(lines) == SectionsOf(lines, Headed(lines))

\* Mutated: rounded down.
ChunkSize_Floor(count) == count \div Least(MaxBuckets, count)

\* The items of a chunk, when count items are cut into at most MaxBuckets chunks.
ChunkSize(count) == LET n == Least(MaxBuckets, count) IN (count + n - 1) \div n

Chunks(items) ==
    IF items = <<>> THEN <<>>
    ELSE LET size == ChunkSize(Len(items)) IN
         [n \in 1..((Len(items) + size - 1) \div size) |->
             SubSeq(items, (n - 1) * size + 1, Least(n * size, Len(items)))]

\* Groups are the first sections, or chunks of the list if no section has items.
Buckets(lines) ==
    IF Sections(lines) # <<>>
    THEN SubSeq(Sections(lines), 1, Least(MaxBuckets, Len(Sections(lines))))
    ELSE Chunks(ItemsOf(lines))

\* Whether the reply is read out in groups; wordy: more than the words that pass through.
Layered(lines, wordy) ==
    \/ Len(ItemsOf(lines)) >= Threshold
    \/ wordy /\ Len(ItemsOf(lines)) >= 3
=============================================================================
