-------------------------------- MODULE Dict --------------------------------
(***************************************************************************)
(* The hash table of hiredis (dict.c), in which async.c keeps the          *)
(* callbacks of the channels: chained slots, doubled when there are as     *)
(* many entries as slots, and an iterator whose user may delete the entry  *)
(* it was given.                                                           *)
(***************************************************************************)
EXTENDS Naturals, Sequences, SequencesExt

CONSTANTS
  DictKeys, Vals,
  Hash,                   \* key -> dictGenHashFunction of it
  DICT_HT_INITIAL_SIZE    \* a power of two

\* 0 is NULL.
ASSUME DictAssumption ==
  /\ Hash \in [DictKeys -> Nat] /\ 0 \notin DictKeys
  /\ IsFiniteSet(DictKeys) /\ DICT_HT_INITIAL_SIZE \in Nat \ {0}

VARIABLES
  table,     \* slots, each a chain of [key, val], first entry first; size is its length
  used,
  adding,    \* what dictReplace was given, until it is in the table; empty between calls
  larger,    \* the new table of dictExpand and what it will count; NoTable if there is none
  iter,      \* the iterator, if it is there: [on, index, entry, nextEntry]
  content,   \* history: key -> value, of the keys added and not deleted
  visited    \* history: the keys the iterator gave, and those that were there at its start

tableVars == <<table, used, adding, larger, iter, content, visited>>

size == Len(table)
Slot(key, slots) == (Hash[key] % slots) + 1
Empty(slots) == [i \in 1..slots |-> <<>>]
NoTable == [table |-> <<>>, used |-> 0]
Expanding == larger # NoTable

\* The place of a key in a chain, 0 if it is not there.
Place(chain, key) ==
  IF \E i \in DOMAIN chain : chain[i].key = key
  THEN CHOOSE i \in DOMAIN chain : chain[i].key = key /\ \A j \in 1..(i - 1) : chain[j].key # key
  ELSE 0

-----------------------------------------------------------------------------
(* Adding: dictReplace calls dictAdd, which expands the table first        *)

\* _dictExpandIfNeeded; sizes are powers of two, so that _dictNextPower changes none.
dictReplace(key, val) ==
  /\ adding = {} /\ ~iter.on
  /\ adding' = {[key |-> key, val |-> val]}
  /\ larger' = IF size = 0 THEN [table |-> Empty(DICT_HT_INITIAL_SIZE), used |-> used]
               ELSE IF used = size THEN [table |-> Empty(2 * size), used |-> used] ELSE larger
  /\ UNCHANGED <<table, used, iter, content, visited>>

\* One turn of the inner loop of dictExpand moves the first entry that is left to the head
\* of its new chain.  (BadMove, which loses the chain that is there, is a wrong variant no
\* specification uses.)
BadMove(t, e) == [t EXCEPT ![Slot(e.key, Len(t))] = <<e>>]
Move(t, e) == [t EXCEPT ![Slot(e.key, Len(t))] = <<e>> \o @]
Filled == {i \in 1..size : table[i] # <<>>}
MoveEntry ==
  /\ Expanding /\ used > 0 /\ Filled # {}
  /\ LET i == Min(Filled) IN
     /\ table' = [table EXCEPT ![i] = Tail(@)]
     /\ larger' = [larger EXCEPT !.table = Move(@, Head(table[i]))]
  /\ used' = used - 1
  /\ UNCHANGED <<adding, iter, content, visited>>

\* The loops are over: the new table takes the place of the old one.
dictExpand ==
  /\ Expanding /\ ~(used > 0 /\ Filled # {})
  /\ table' = larger.table /\ used' = larger.used /\ larger' = NoTable
  /\ UNCHANGED <<adding, iter, content, visited>>

\* The entry goes to the head of its chain, or the one with its key gets the new value.
dictAdd ==
  /\ ~Expanding
  /\ \E entry \in adding :
       LET s == Slot(entry.key, size)
           i == Place(table[s], entry.key)
       IN
       /\ IF i = 0 THEN table' = [table EXCEPT ![s] = <<entry>> \o @] /\ used' = used + 1
          ELSE table' = [table EXCEPT ![s][i] = entry] /\ UNCHANGED used
       /\ content' = [k \in DOMAIN content \cup {entry.key} |->
                        IF k = entry.key THEN entry.val ELSE content[k]]
  /\ adding' = {}
  /\ UNCHANGED <<larger, iter, visited>>

-----------------------------------------------------------------------------
Unlink(key) ==
  LET s == Slot(key, size) IN
  IF size > 0 /\ Place(table[s], key) > 0
  THEN table' = [table EXCEPT ![s] = RemoveAt(@, Place(@, key))] /\ used' = used - 1
  ELSE UNCHANGED <<table, used>>

dictDelete(key) ==
  /\ adding = {} /\ (iter.on => iter.entry = key)
  /\ Unlink(key)
  /\ content' = [k \in DOMAIN content \ {key} |-> content[k]]
  /\ UNCHANGED <<adding, larger, iter, visited>>

dictFind(key) ==
  IF size = 0 THEN {}
  ELSE LET chain == table[Slot(key, size)] IN
       IF Place(chain, key) = 0 THEN {} ELSE {chain[Place(chain, key)].val}

-----------------------------------------------------------------------------
(* The iterator; its entry stays what it is when that is deleted.          *)

NoIterator == [on |-> FALSE, index |-> 0, entry |-> 0, nextEntry |-> 0]

dictGetIterator ==
  /\ adding = {} /\ ~iter.on
  /\ iter' = [NoIterator EXCEPT !.on = TRUE]
  /\ visited' = [given |-> <<>>, start |-> DOMAIN content]
  /\ UNCHANGED <<table, used, adding, larger, content>>

After(key) ==
  LET chain == table[Slot(key, size)]
      i == Place(chain, key)
  IN  IF i < Len(chain) THEN chain[i + 1].key ELSE 0

\* The next entry of the chain, or else the first one of the next chain that has any.
Give(index, key) ==
  /\ iter' = [on |-> TRUE, index |-> index, entry |-> key, nextEntry |-> After(key)]
  /\ visited' = [visited EXCEPT !.given = Append(@, key)]
Ahead == {i \in (iter.index + 1)..size : table[i] # <<>>}
dictNext ==
  /\ iter.on
  /\ IF iter.nextEntry # 0 THEN Give(iter.index, iter.nextEntry)
     ELSE IF Ahead # {} THEN LET i == Min(Ahead) IN Give(i, table[i][1].key)
     ELSE iter' = NoIterator /\ UNCHANGED visited      \* dictReleaseIterator
  /\ UNCHANGED <<table, used, adding, larger, content>>

\* dictRelease clears all slots.
dictRelease ==
  /\ adding = {} /\ ~iter.on
  /\ table' = <<>> /\ used' = 0 /\ content' = <<>>
  /\ UNCHANGED <<adding, larger, iter, visited>>

-----------------------------------------------------------------------------
TableInit ==
  /\ table = <<>> /\ used = 0 /\ adding = {} /\ larger = NoTable
  /\ iter = NoIterator /\ content = <<>> /\ visited = [given |-> <<>>, start |-> {}]

TableNext ==
  \/ \E k \in DictKeys, v \in Vals : dictReplace(k, v)
  \/ MoveEntry \/ dictExpand \/ dictAdd
  \/ \E k \in DictKeys : dictDelete(k)
  \/ dictGetIterator \/ dictNext \/ dictRelease

TableSpec == TableInit /\ [][TableNext]_tableVars

-----------------------------------------------------------------------------
(* Properties                                                              *)

KeysOf(t) == UNION {{t[i][j].key : j \in DOMAIN t[i]} : i \in DOMAIN t}

\* Through expansion, replacement and deletion the table finds for each key the value given
\* last, has each key once and where it is looked for, and counts its entries, so that the
\* assertion at the end of dictExpand holds (dict.c:88-290).
FindsLast ==
  /\ ~Expanding =>
       \A k \in DictKeys : dictFind(k) = IF k \in DOMAIN content THEN {content[k]} ELSE {}
  /\ used = Cardinality(KeysOf(table))
  /\ \A i \in 1..size : \A j \in 1..Len(table[i]) :
       Slot(table[i][j].key, size) = i /\ Place(table[i], table[i][j].key) = j

\* An iterator gives every key that was there, once, although its user deletes as it goes
\* (dict.c:248-290).
VisitsAll ==
  /\ \A i, j \in DOMAIN visited.given : visited.given[i] = visited.given[j] => i = j
  /\ ~iter.on => ToSet(visited.given) = visited.start
=============================================================================
