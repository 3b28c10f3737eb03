-------------------------------- MODULE Presign --------------------------------
(***************************************************************************)
(* The online phase of package dklstss (presign.go): concurrent callers of *)
(* SignWithPresign and SignWithPresignDurable share PresignOutput values   *)
(* and a store of used R-hashes, and the process may crash between any two *)
(* of their steps.                                                         *)
(*                                                                         *)
(* A presign is a handle in memory with its consumed flag.  After a crash  *)
(* the application may bring a presign back from its own storage: the      *)
(* handle returns with its flag clear, and two handles may hold the same   *)
(* nonce R.  Only the store survives.                                      *)
(***************************************************************************)
EXTENDS Naturals

CONSTANTS Caller,     \* goroutines that sign
          Handle,     \* PresignOutput values
          Nonce,      \* group nonces R, named by their RHash
          R,          \* the nonce of each handle
          Aggregated, \* handles made by Presign, not by PresignParty
          Entry,      \* the entry points used for each handle: "durable", "memory"
          MayFail,    \* nonces for which the store or the computation may fail
          MaxCrashes, \* bound on the crashes
          NoHandle    \* a caller that is not in a call

ASSUME PresignAssumption ==
  /\ R \in [Handle -> Nonce]
  /\ Aggregated \subseteq Handle
  /\ Entry \in [Handle -> SUBSET {"durable", "memory"}]
  /\ MayFail \subseteq Nonce
  /\ MaxCrashes \in Nat

VARIABLES consumed, \* handles whose consumed flag is set
          store,    \* the nonces recorded in the UsedPresignStore
          pc,       \* per caller: "idle", "durable" or "memory" (just entered),
                    \* "recorded", "won" (the compare-and-swap)
          handle,   \* per caller: its presign
          empty,    \* callers that pass an empty hash
          sigs,     \* the number of signatures returned for each nonce
          crashes

vars == <<consumed, store, pc, handle, empty, sigs, crashes>>

Init ==
  /\ consumed = {}
  /\ store = {}
  /\ pc = [c \in Caller |-> "idle"]
  /\ handle = [c \in Caller |-> NoHandle]
  /\ empty = {}
  /\ sigs = [r \in Nonce |-> 0]
  /\ crashes = 0

\* Return to the caller.
Return(c) == pc' = [pc EXCEPT ![c] = "idle"]

\* Mutant: a nil presign is not refused.
CallNil(c) ==
  \E h \in Handle \cup {NoHandle}, e \in {"durable", "memory"} :
    /\ pc[c] = "idle"
    /\ pc' = [pc EXCEPT ![c] = e]
    /\ handle' = [handle EXCEPT ![c] = h]
    /\ UNCHANGED <<consumed, store, empty, sigs, crashes>>

\* A call of SignWithPresign or SignWithPresignDurable.
Call(c) ==
  \E h \in Handle : \E e \in Entry[h], mute \in SUBSET {c} :
    /\ pc[c] = "idle"
    /\ pc' = [pc EXCEPT ![c] = e]
    /\ handle' = [handle EXCEPT ![c] = h]
    /\ empty' = (empty \ {c}) \cup mute
    /\ UNCHANGED <<consumed, store, sigs, crashes>>

\* Mutant: SignWithPresignDurable leaves the test of the hash to SignWithPresign.
FitForStoreAnyHash(c) == handle[c] \in Aggregated

\* What SignWithPresignDurable asks of its arguments before it goes to the store:
\* an aggregated presign and a hash.
FitForStore(c) == handle[c] \in Aggregated /\ c \notin empty

\* What SignWithPresign asks before it goes to the flag, also of a call that comes
\* from SignWithPresignDurable and has its nonce recorded.
FitForFlag(c) == c \notin empty /\ handle[c] \in Aggregated

\* The early returns of the two functions.
Reject(c) ==
  /\ \/ pc[c] = "durable" /\ ~FitForStore(c)
     \/ pc[c] \in {"memory", "recorded"} /\ ~FitForFlag(c)
  /\ Return(c)
  /\ UNCHANGED <<consumed, store, handle, empty, sigs, crashes>>

\* Mutant: the answer of the store is ignored.
CheckIgnored(c) ==
  /\ pc[c] = "durable"
  /\ FitForStore(c)
  /\ store' = store \cup {R[handle[c]]}
  /\ pc' = [pc EXCEPT ![c] = "recorded"]
  /\ UNCHANGED <<consumed, handle, empty, sigs, crashes>>

\* Mutant: the flag is set along with the record, before the swap.
RecordAndConsume(c) ==
  /\ pc[c] = "durable"
  /\ FitForStore(c)
  /\ IF R[handle[c]] \in store
     THEN Return(c) /\ UNCHANGED <<store, consumed>>
     ELSE /\ store' = store \cup {R[handle[c]]}
          /\ consumed' = consumed \cup {handle[c]}
          /\ pc' = [pc EXCEPT ![c] = "recorded"]
  /\ UNCHANGED <<handle, empty, sigs, crashes>>

\* CheckAndRecord, atomic under the store's mutex: the nonce is new, or it is
\* already there, or the store fails (with or without having recorded it).
CheckAndRecord(c) ==
  /\ pc[c] = "durable"
  /\ FitForStore(c)
  /\ \/ /\ R[handle[c]] \notin store
        /\ store' = store \cup {R[handle[c]]}
        /\ pc' = [pc EXCEPT ![c] = "recorded"]
     \/ /\ R[handle[c]] \in store
        /\ Return(c)
        /\ UNCHANGED store
     \/ /\ R[handle[c]] \in MayFail
        /\ store' \in {store, store \cup {R[handle[c]]}}
        /\ Return(c)
  /\ UNCHANGED <<consumed, handle, empty, sigs, crashes>>

\* consumed.CompareAndSwap(false, true): one caller wins.
CompareAndSwap(c) ==
  /\ pc[c] \in {"memory", "recorded"}
  /\ FitForFlag(c)
  /\ IF handle[c] \in consumed
     THEN Return(c) /\ UNCHANGED consumed
     ELSE /\ consumed' = consumed \cup {handle[c]}
          /\ pc' = [pc EXCEPT ![c] = "won"]
  /\ UNCHANGED <<store, handle, empty, sigs, crashes>>

\* Mutant: the call is repeated after it has signed.
FinalizeAgain(c) ==
  /\ pc[c] = "won"
  /\ sigs' = [sigs EXCEPT ![R[handle[c]]] = (@ + 1) % 3]
  /\ UNCHANGED <<consumed, store, pc, handle, empty, crashes>>

\* The rest of SignWithPresign: a signature, or one of the errors after the
\* swap (phi or s is 0, the final verification fails), which burn the presign.
Finalize(c) ==
  /\ pc[c] = "won"
  /\ \/ sigs' = [sigs EXCEPT ![R[handle[c]]] = @ + 1]
     \/ R[handle[c]] \in MayFail /\ UNCHANGED sigs
  /\ Return(c)
  /\ UNCHANGED <<consumed, store, handle, empty, crashes>>

\* The process dies and restarts: the flags and the running calls are gone.
Crash ==
  /\ crashes < MaxCrashes
  /\ crashes' = crashes + 1
  /\ consumed' = {}
  /\ pc' = [c \in Caller |-> "idle"]
  /\ UNCHANGED <<store, handle, empty, sigs>>

Step(c) == Reject(c) \/ CheckAndRecord(c) \/ CompareAndSwap(c) \/ Finalize(c)

Next == Crash \/ \E c \in Caller : Call(c) \/ Step(c)

Spec == Init /\ [][Next]_vars

\* A call that has been made runs to its end unless the process dies.
FairSpec == Spec /\ \A c \in Caller : WF_vars(Step(c))
-----------------------------------------------------------------------------
\* A caller that may still produce a signature.
Active(c) == pc[c] \in {"recorded", "won"}

\* The flags, records and counts have their types, and a call that is running
\* has a presign: nil is refused at the entry.
TypeOK ==
  /\ consumed \subseteq Handle
  /\ store \subseteq Nonce
  /\ pc \in [Caller -> {"idle", "durable", "memory", "recorded", "won"}]
  /\ handle \in [Caller -> Handle \cup {NoHandle}]
  /\ \A c \in Caller : pc[c] # "idle" => handle[c] \in Handle
  /\ empty \subseteq Caller
  /\ sigs \in [Nonce -> Nat]
  /\ crashes \in 0 .. MaxCrashes

\* The nonces that only SignWithPresignDurable is called with.
Durable == {r \in Nonce : \A h \in Handle : R[h] = r => Entry[h] \subseteq {"durable"}}

\* No two handles hold the nonce r.
Single(r) == \A g, h \in Handle : R[g] = r /\ R[h] = r => g = h

\* No nonce ever signs twice ("reuse equals nonce reuse equals key
\* extraction"): concurrent callers, copies of a presign and crashes included
\* when the store is always used; concurrent callers on one presign when it is
\* not, or not always, as long as the process lives.
NonceSignsOnce ==
  \A r \in Nonce : r \in Durable \/ (crashes = 0 /\ Single(r)) => sigs[r] <= 1

\* The call of c can end with a signature: it has a hash and a presign that
\* holds the shares of all signers.
CanSign(c) == handle[c] \in Aggregated /\ c \notin empty

\* A call that is destined to fail, with a per-party output or an empty hash,
\* burns neither a flag nor a record of the store: whoever takes the step that
\* burns one can sign, and whoever has burned one is not refused by a later test.
MisuseBurnsNothing ==
  [][/\ store' # store \/ ~(consumed' \subseteq consumed) =>
          \E c \in Caller : pc'[c] # pc[c] /\ CanSign(c)
     /\ \A c \in Caller : Active(c) => CanSign(c)]_vars

\* Whoever records a nonce also gets to use it: no two callers lock each other
\* out between the store and the flag, so without failures and crashes every
\* recorded nonce signs.
RecordedNonceSigns ==
  \A r \in Nonce \ MayFail : r \in store ~> (sigs[r] > 0 \/ crashes > 0)

\* A nonce is spent when the store knows it.
Abstract == INSTANCE OneTimeNonce
  WITH Nonce <- Durable, spent <- store \cap Durable, sigs <- [r \in Durable |-> sigs[r]]

\* For its own nonces SignWithPresignDurable implements OneTimeNonce, whatever
\* is done with the others: a nonce is spent before it signs, and signs once.
ImplementsOneTimeNonce == Abstract!Spec
=============================================================================
