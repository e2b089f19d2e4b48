-------------------------- MODULE ImsMediaDataQueue --------------------------
(***************************************************************************)
(* The list of entries every node and jitter buffer keeps.  Each operation *)
(* holds the mutex of the list and nothing but the operation, so between   *)
(* two of them another thread may change it; indices count from 0.         *)
(***************************************************************************)
EXTENDS Integers, Sequences

AddEntry(list, entry) == Append(list, entry)

\* An index beyond the end adds there.
InsertEntryAt(list, index, entry) ==
    LET before == IF index < Len(list) THEN index ELSE Len(list) IN
    SubSeq(list, 1, before) \o <<entry>> \o SubSeq(list, before + 1, Len(list))

DeleteEntry(list) == IF list = <<>> THEN list ELSE Tail(list)
ClearEntries(list) == <<>>

\* Get, GetLast and GetAt answer false where there is no such entry.
HasEntryAt(list, index) == Len(list) > index
EntryAt(list, index) == list[index + 1]
FirstEntry(list) == list[1]
LastEntry(list) == list[Len(list)]
=============================================================================
