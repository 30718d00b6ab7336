----------------------------- MODULE WordCount -----------------------------
(***************************************************************************)
(* The word counter of warmup/wc.c under the program of test_wc.c: a hash  *)
(* table of chains, each behind a header element.  One step is one word.   *)
(***************************************************************************)
EXTENDS Integers, SequencesExt

CONSTANTS
  Letters, Space,   \* the characters
  Ascii(_),         \* their values, for the hash function
  MaxText,          \* bound on the length of the text
  PageSize,         \* the file is mapped in pages
  MaxBehind,        \* bound on what is taken in behind the text
  MAX_HASH_SIZE

VARIABLES
  text,       \* word_array: the file
  behind,     \* the letters in memory between the text and a zero or a space
  pos,        \* i, the index (from 1) wc_init looks at next
  table,      \* of every bucket: the chain of its words and counts
  blocks,     \* blocks malloc has handed out and free has not taken back
  printed,    \* what wc_output printed
  outcome     \* "live", "fault" or "done"

mapped == <<text, behind>>
vars == <<mapped, pos, table, blocks, printed, outcome>>

Buckets == 0 .. MAX_HASH_SIZE - 1
Size == Len(text)

(* test_wc.c maps the file.  The rest of its last page holds zeros, and    *)
(* behind a file of whole pages comes whatever is mapped there.            *)
Init ==
  /\ text \in SeqOf(Letters \cup {Space}, MaxText)
  /\ behind \in IF Size % PageSize = 0 THEN SeqOf(Letters, MaxBehind) ELSE {<<>>}
  /\ pos = 1
  /\ table = [h \in Buckets |-> <<>>]
  /\ blocks = 1
  /\ printed = <<>>
  /\ outcome = "live"

(* ha_val % MAX_HASH_SIZE, reduced at every step: where the 64 bits of     *)
(* ha_val wrap it is some other function of the word.                      *)
hash(word) == FoldLeft(LAMBDA h, c : (h * 31 + Ascii(c)) % MAX_HASH_SIZE, 0, word)

(* The index after the last character of the word that begins at i.        *)
SpacesFrom(i) == {j \in i .. Size : text[j] = Space}
Scanning == outcome = "live" /\ pos <= Size

Skip ==
  /\ Scanning /\ text[pos] = Space
  /\ pos' = pos + 1
  /\ UNCHANGED <<mapped, table, blocks, printed, outcome>>

-----------------------------------------------------------------------------
(* The search of the chain, and the count or the new element at its end.   *)
first_only(h, word) == {k \in 1 .. Min({1, Len(table[h])}) : table[h][k].word = word}
same_word(h, word) == {k \in 1 .. Len(table[h]) : table[h][k].word = word}

duplicate_kept == 1
duplicate_freed == 0
Count(h, word) ==
  IF same_word(h, word) # {}
  THEN /\ table' = [table EXCEPT ![h][Min(same_word(h, word))].count = @ + 1]
       /\ blocks' = blocks + duplicate_freed
  ELSE /\ table' = [table EXCEPT ![h] = Append(@, [word |-> word, count |-> 1])]
       /\ blocks' = blocks + 2

skip_two(end) == end + 2
resume(end) == end + 1
Word ==
  /\ Scanning /\ text[pos] # Space /\ SpacesFrom(pos) # {}
  /\ LET end == Min(SpacesFrom(pos))
         word == SubSeq(text, pos, end - 1)
     IN Count(hash(word), word) /\ pos' = resume(end)
  /\ UNCHANGED <<mapped, printed, outcome>>

(* No space ends the last word: the scan runs on behind the text, to a     *)
(* fault or to some space.  All that it takes in is hashed, but as a       *)
(* string the word ends before the first zero.                             *)
LastWord ==
  /\ Scanning /\ text[pos] # Space /\ SpacesFrom(pos) = {}
  /\ \E h \in Buckets : Count(h, SubSeq(text, pos, Size) \o behind)
  /\ pos' = Size + 1
  /\ UNCHANGED <<mapped, printed, outcome>>

(* The scan past the end, or a write through malloc's NULL.                *)
WordFault ==
  /\ Scanning /\ text[pos] # Space
  /\ outcome' = "fault"
  /\ UNCHANGED <<mapped, pos, table, blocks, printed>>

-----------------------------------------------------------------------------
Whole == outcome = "live" /\ pos > Size /\ blocks > 0

wc_output ==
  /\ Whole /\ printed = <<>>
  /\ printed' = <<FlattenSeq([h \in 1 .. MAX_HASH_SIZE |-> table[h - 1]])>>
  /\ UNCHANGED <<mapped, pos, table, blocks, outcome>>

(* wc_destroy frees an element and its word, and at last the table.        *)
FreeElement ==
  /\ Whole /\ printed # <<>>
  /\ \E h \in Buckets :
       /\ table[h] # <<>> /\ \A g \in Buckets : g < h => table[g] = <<>>
       /\ table' = [table EXCEPT ![h] = Tail(@)]
  /\ blocks' = blocks - 2
  /\ UNCHANGED <<mapped, pos, printed, outcome>>

FreeTable ==
  /\ Whole /\ printed # <<>>
  /\ \A h \in Buckets : table[h] = <<>>
  /\ blocks' = blocks - 1
  /\ outcome' = "done"
  /\ UNCHANGED <<mapped, pos, table, printed>>

Ended == outcome # "live" /\ UNCHANGED vars

Next ==
  \/ Skip \/ Word \/ LastWord \/ WordFault \/ wc_output \/ FreeElement
  \/ FreeTable \/ Ended
Spec == Init /\ [][Next]_vars
-----------------------------------------------------------------------------
(* The places where a word begins, and the word that lies there in memory. *)
Starts ==
  {i \in 1 .. Size : text[i] # Space /\ (i = 1 \/ text[i - 1] = Space)}
WordAt(i) ==
  IF SpacesFrom(i) = {} THEN SubSeq(text, i, Size) \o behind
  ELSE SubSeq(text, i, Min(SpacesFrom(i)) - 1)

(* wc_output prints the words that lie in memory where a word of the text  *)
(* begins, with the number of these places, and nothing else.  They are    *)
(* the words of the text if it ends with a space or zeros follow it; if it *)
(* ends with a space each is printed once, in any other text the last may  *)
(* have an element of its own.                                             *)
CountsMatch ==
  \A p \in Range(printed) :
    /\ \A i \in Starts :
         LET of_word == {k \in 1 .. Len(p) : p[k].word = WordAt(i)}
         IN /\ MapThenSumSet(LAMBDA k : p[k].count, of_word)
                 = Cardinality({j \in Starts : WordAt(j) = WordAt(i)})
            /\ Last(text) = Space => Cardinality(of_word) = 1
    /\ \A e \in Range(p) : \E j \in Starts : WordAt(j) = e.word

(* All memory is given back: test_wc.c asserts it.                         *)
NothingLeft == outcome = "done" => blocks = 0
=============================================================================
