--------------------------- MODULE NetworkCreation ---------------------------
(***************************************************************************)
(* create_network of DockerBackend (runtime/docker.rs) by several tests at *)
(* once: the name is looked up, and when it is not found a network is      *)
(* created with a /16 subnet derived from the hash of the name, with other *)
(* subnets tried when the daemon says that the pool overlaps.              *)
(*                                                                         *)
(* The hash and the sum that makes the next subnet are u64; Width stands   *)
(* for 2^64, and leaves the same remainder by 240 when it is a power of 16.*)
(***************************************************************************)
EXTENDS Naturals, FiniteSets

CONSTANTS Caller,       \* calls of create_network, of one process
          Name, Hash,   \* network names and values their hash may take
          Pid,          \* ids the process may have
          Width

VARIABLES
  hash, pid, wraps,     \* of the names, of the process; release or debug build
  networks,             \* what the daemon has: id, name, octet of the subnet
  name, pc, attempt, octet,
  ret, id,              \* how a call ended, and the network it returned
  refused               \* the octets the daemon has refused to a call

env  == <<hash, pid, wraps>>
vars == <<env, networks, name, pc, attempt, octet, ret, id, refused>>

Octet == 10 .. 249
Free  == 0

\* Subnets are 172.10 to 172.249, also where the sum wraps around.
TypeOK ==
  /\ hash \in [Name -> Hash] /\ pid \in Pid /\ wraps \in BOOLEAN
  /\ networks \subseteq [id : 1 .. Cardinality(Caller), name : Name, octet : Octet]
  /\ name \in [Caller -> Name]
  /\ pc \in [Caller -> {"inspect", "create", "done"}]
  /\ attempt \in [Caller -> 0 .. 4] /\ octet \in [Caller -> Octet \cup {Free}]
  /\ ret \in [Caller -> {"none", "ok", "overlaps", "failed", "panic"}]
  /\ id \in [Caller -> 0 .. Cardinality(Caller)]
  /\ refused \in [Caller -> SUBSET Octet]

Init ==
  /\ hash \in [Name -> Hash] /\ pid \in Pid /\ wraps \in BOOLEAN
  /\ networks = {} /\ name \in [Caller -> Name]
  /\ pc = [c \in Caller |-> "inspect"] /\ attempt = [c \in Caller |-> 0]
  /\ octet = [c \in Caller |-> Free] /\ ret = [c \in Caller |-> "none"]
  /\ id = [c \in Caller |-> 0]
  /\ refused = [c \in Caller |-> {}]

-----------------------------------------------------------------------------

FirstOctet(h) == (h % 240) + 10

\* (Mutant) The attempt is left out of the sum.
NextOctetMut(h, p, k) == (((p + h) % Width) % 240) + 10

NextOctet(h, p, k) == (((p + (k * 37) + h) % Width) % 240) + 10

Overflows(h, p, k) == p + (k * 37) + h >= Width

Done(c, r) == pc' = [pc EXCEPT ![c] = "done"] /\ ret' = [ret EXCEPT ![c] = r]

Got(c, i) == Done(c, "ok") /\ id' = [id EXCEPT ![c] = i]

\* A network of the name is used.  When there is none, when the daemon cannot
\* tell which of two is meant, or when it cannot be asked, one is created.
Inspect(c) ==
  LET found == {n \in networks : n.name = name[c]} IN
  /\ pc[c] = "inspect"
  /\ \/ \E n \in found : found = {n} /\ Got(c, n.id) /\ UNCHANGED octet
     \/ /\ pc' = [pc EXCEPT ![c] = "create"]
        /\ octet' = [octet EXCEPT ![c] = FirstOctet(hash[name[c]])]
        /\ UNCHANGED <<ret, id>>
  /\ UNCHANGED <<env, networks, name, attempt, refused>>

\* Not every daemon refuses a name that is taken.
Created(c) ==
  LET new == Cardinality(networks) + 1 IN
  /\ pc[c] = "create"
  /\ \A n \in networks : n.octet # octet[c]
  /\ networks' = networks \cup {[id |-> new, name |-> name[c], octet |-> octet[c]]}
  /\ Got(c, new)
  /\ UNCHANGED <<env, name, attempt, octet, refused>>

\* The pool of the subnet overlaps with one in use, of ours or not.
Overlaps(c) ==
  LET h == hash[name[c]] IN
  /\ pc[c] = "create"
  /\ refused' = [refused EXCEPT ![c] = @ \cup {octet[c]}]
  /\ IF attempt[c] = 4
     THEN Done(c, "overlaps") /\ UNCHANGED <<attempt, octet>>
     ELSE IF Overflows(h, pid, attempt[c]) /\ ~wraps
     THEN Done(c, "panic") /\ UNCHANGED <<attempt, octet>>
     ELSE /\ octet' = [octet EXCEPT ![c] = NextOctet(h, pid, attempt[c])]
          /\ attempt' = [attempt EXCEPT ![c] = @ + 1]
          /\ UNCHANGED <<pc, ret>>
  /\ UNCHANGED <<env, networks, name, id>>

\* Every other failure ends the call, a name that is taken for one.
CreateFails(c) ==
  /\ pc[c] = "create" /\ Done(c, "failed")
  /\ UNCHANGED <<env, networks, name, attempt, octet, id, refused>>

Next == \E c \in Caller : Inspect(c) \/ Created(c) \/ Overlaps(c) \/ CreateFails(c)

Spec == Init /\ [][Next]_vars

-----------------------------------------------------------------------------
(* Properties.                                                             *)

\* A call gives up over its subnets only when the daemon has refused four
\* different ones at least (the first guess may come again among the other
\* four), also where the sum wraps around.
GivesUpAfterFour ==
  \A c \in Caller : ret[c] = "overlaps" => Cardinality(refused[c]) >= 4
=============================================================================
