----------------------------- MODULE PageStore ------------------------------
(***************************************************************************)
(* What a page cache over a heap file promises.  Every allocated page has  *)
(* a current image, the one clients read and write, and a durable image,   *)
(* the one found in the file.  The durable image is only ever the current  *)
(* one or, when a write to the file was interrupted, Torn: a block whose   *)
(* checksum does not match, which the file layer refuses to read.  Losing  *)
(* the process replaces every current image by the durable one.            *)
(***************************************************************************)
EXTENDS Naturals

CONSTANTS
  MaxPages,  \* page identifiers are 0 .. MaxPages - 1
  Contents,  \* images a page can have
  Blank,     \* the image of a freshly initialised page
  Torn,      \* a durable image that fails its checksum
  Absent     \* the image of a page that is not allocated

VARIABLES
  current,   \* current[p]: what a client that accesses page p sees
  durable    \* durable[p]: what the file holds for page p

storeVars == <<current, durable>>

PageIds == 0 .. MaxPages - 1

Init ==
  /\ current = [p \in PageIds |-> Absent]
  /\ durable = [p \in PageIds |-> Absent]

\* Page p comes into existence, blank both in the cache and in the file.
Allocate(p) ==
  /\ current[p] = Absent
  /\ \A q \in PageIds : q < p => current[q] # Absent
  /\ current' = [current EXCEPT ![p] = Blank]
  /\ durable' = [durable EXCEPT ![p] = Blank]

\* A client replaces the image of page p.
Write(p, image) ==
  /\ current[p] \in Contents
  /\ current' = [current EXCEPT ![p] = image]
  /\ UNCHANGED durable

\* The image of page p reaches the file, whole or torn.
Persist(p) ==
  /\ current[p] \in Contents
  /\ \E image \in {current[p], Torn} : durable' = [durable EXCEPT ![p] = image]
  /\ UNCHANGED current

\* The process ends; the next one starts from the file.
Lose ==
  /\ current' = durable
  /\ UNCHANGED durable

Next ==
  \/ \E p \in PageIds : Allocate(p) \/ Persist(p)
  \/ \E p \in PageIds, image \in Contents : Write(p, image)
  \/ Lose

Spec == Init /\ [][Next]_storeVars
=============================================================================
