------------------------------ MODULE SlotMap -------------------------------
(***************************************************************************)
(* What a slotted page promises its callers: numbered slots holding        *)
(* records, in a page of limited size.  A new record takes the lowest      *)
(* deleted slot, or a slot of its own; slots are never renumbered.  An     *)
(* operation is refused for lack of space exactly when the header, the     *)
(* directory and the live records, the new one included, exceed the page:  *)
(* where in the page the free bytes lie never matters.                     *)
(***************************************************************************)
EXTENDS FiniteSetsExt, Sequences, Integers, Space

CONSTANTS
  PageSize, HeaderSize, SlotSize,
  Records,  \* the records clients store, each a non-empty sequence of bytes
  Deleted   \* what a deleted slot holds

VARIABLES
  content,  \* content[s]: the record in slot s, or Deleted
  result    \* the last operation and what it returned or threw

slotVars == <<content, result>>

Live == {s \in DOMAIN content : content[s] # Deleted}
Dead == DOMAIN content \ Live
LiveBytes(slots) == Total([s \in slots |-> Len(content[s])])
Needs(directory, slots, r) ==
  HeaderSize + directory * SlotSize + LiveBytes(slots) + Len(r)

Init == content = <<>> /\ result = <<"none">>

Insert(r) ==
  LET directory == IF Dead = {} THEN Len(content) + 1 ELSE Len(content)
      slot == IF Dead = {} THEN Len(content) + 1 ELSE Min(Dead) IN
  IF Needs(directory, Live, r) <= PageSize
  THEN /\ content' = IF Dead = {} THEN Append(content, r) ELSE [content EXCEPT ![slot] = r]
       /\ result' = <<"inserted", r, slot>>
  ELSE result' = <<"not inserted", r>> /\ UNCHANGED content

Missing(s) == s \notin Live /\ result' = <<"missing", s>> /\ UNCHANGED content

Replace(s, r) ==
  /\ s \in Live
  /\ IF Needs(Len(content), Live \ {s}, r) <= PageSize
     THEN result' = <<"replaced", s, r>> /\ content' = [content EXCEPT ![s] = r]
     ELSE result' = <<"not replaced", s, r>> /\ UNCHANGED content

Erase(s) ==
  /\ s \in Live
  /\ result' = <<"erased", s>>
  /\ content' = [content EXCEPT ![s] = Deleted]

Read(s) ==
  /\ s \in Live
  /\ result' = <<"read", s, content[s]>>
  /\ UNCHANGED content

Next ==
  \/ \E r \in Records : Insert(r)
  \/ \E s \in 1 .. Len(content) + 1 :
       Missing(s) \/ Erase(s) \/ Read(s) \/ \E r \in Records : Replace(s, r)

Spec == Init /\ [][Next]_slotVars
=============================================================================
