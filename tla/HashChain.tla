---------------------------- MODULE HashChain ----------------------------
(***************************************************************************)
(* The one-way hash chain every drone generates at start-up and the        *)
(* arithmetic that ties an element of it to a (sequence number, hop count) *)
(* pair.  SHA-256 is symbolic: element i of drone o hashed once is element *)
(* i - 1 of o, and element 0 is the authenticator the drone broadcasts in  *)
(* its AUTH hello.  Nothing else ever hashes to it.                        *)
(***************************************************************************)
EXTENDS Integers

(* Operators named ...Mutant are plausible wrong versions of the           *)
(* definition that follows them; nothing uses them but mutation testing.   *)

CONSTANTS
    MaxHop,     \* max_hop_count, the same on every drone
    MaxSeq      \* max_seq_count, the same on every drone

ASSUME ChainAssumption == MaxHop \in Nat \ {0} /\ MaxSeq \in Nat \ {0}

(***************************************************************************)
(* neighborDiscoveryFunction pushes MaxSeq * MaxHop hashes to the front of *)
(* hashChainCache, each the hash of the one behind it.                     *)
(***************************************************************************)
(* Adds the limits instead of multiplying them. *)
ChainLengthMutant == MaxSeq + MaxHop

ChainLength == MaxSeq * MaxHop

Element(owner, index) == [owner |-> owner, index |-> index]

Authenticator(owner) == Element(owner, 0)

(***************************************************************************)
(* getHashFromChain: the element a drone discloses for a sequence number   *)
(* and a hop count; the caller gets std::out_of_range beyond the end.      *)
(***************************************************************************)
ChainIndex(seq, hop) == (seq - 1) * MaxHop + hop

InChain(seq, hop) == ChainIndex(seq, hop) < ChainLength

(***************************************************************************)
(* The verifier's loop: how often routeRequestHandler and                  *)
(* routeReplyHandler hash what they received, and the result.              *)
(***************************************************************************)
HashIterationsMutant(seq, hop) == MaxHop * seq + hop

HashIterations(seq, hop) == MaxHop * (IF seq > 0 THEN seq - 1 ELSE 0) + hop

HashTimes(h, k) == [h EXCEPT !.index = @ - k]
==========================================================================
