---------------------------- MODULE PresignProofs ----------------------------
(***************************************************************************)
(* A nonce signs at most once, for any number of callers and handles: with *)
(* SignWithPresignDurable for any number of copies and crashes, otherwise  *)
(* for one copy as long as the process lives.                              *)
(***************************************************************************)
EXTENDS Presign, TLAPS

NonceOf(c) == R[handle[c]]

\* The store lets one caller through per nonce, before any signature.
ActiveInv ==
  \A c \in Caller : NonceOf(c) \in Durable =>
    /\ pc[c] # "memory"
    /\ Active(c) => /\ NonceOf(c) \in store
                    /\ sigs[NonceOf(c)] = 0
                    /\ \A d \in Caller : Active(d) /\ NonceOf(d) = NonceOf(c) => d = c

SigsInv ==
  \A r \in Durable : sigs[r] <= 1 /\ (sigs[r] # 0 => r \in store)

\* The flag of a presign without copies lets one caller through, before any
\* signature; a crash clears it.
FlagInv ==
  crashes = 0 =>
    /\ \A c \in Caller : pc[c] = "won" /\ Single(NonceOf(c)) =>
         /\ handle[c] \in consumed
         /\ sigs[NonceOf(c)] = 0
         /\ \A d \in Caller : pc[d] = "won" /\ NonceOf(d) = NonceOf(c) => d = c
    /\ \A r \in Nonce : Single(r) =>
         /\ sigs[r] <= 1
         /\ sigs[r] # 0 => \A h \in Handle : R[h] = r => h \in consumed

\* Whoever has recorded a nonce or taken a flag has passed the tests of its
\* arguments, which do not change during the call.
BurnInv == \A c \in Caller : Active(c) => CanSign(c)

IInv == TypeOK /\ ActiveInv /\ SigsInv /\ FlagInv /\ BurnInv

\* The initial state satisfies the invariant.
LEMMA InitIInv == Init => IInv
<1> SUFFICES ASSUME Init PROVE IInv
  OBVIOUS
<1>1. TypeOK
  BY PresignAssumption DEF Init, TypeOK
<1>2. ActiveInv /\ SigsInv /\ FlagInv /\ BurnInv
  BY PresignAssumption
  DEF Init, ActiveInv, Active, SigsInv, FlagInv, BurnInv, Durable
<1> QED  BY <1>1, <1>2 DEF IInv

\* Every step of every caller, and a crash, keep the invariant.
LEMMA NextIInv ==
  ASSUME IInv, [Next]_vars
  PROVE  IInv'
<1>. USE PresignAssumption DEF IInv, TypeOK, Active, NonceOf, Return
<1>0. Durable \subseteq Nonce
  BY DEF Durable
<1>1. ASSUME NEW c \in Caller, Call(c) PROVE IInv'
  <2>1. PICK h \in Handle : \E e \in Entry[h], mute \in SUBSET {c} :
          /\ pc[c] = "idle"
          /\ pc' = [pc EXCEPT ![c] = e]
          /\ handle' = [handle EXCEPT ![c] = h]
          /\ empty' = (empty \ {c}) \cup mute
    BY <1>1, Zenon DEF Call
  <2>a. PICK e \in Entry[h], mute \in SUBSET {c} :
          /\ pc' = [pc EXCEPT ![c] = e]
          /\ empty' = (empty \ {c}) \cup mute
    BY <2>1, Zenon
  <2>2. /\ e \in Entry[h] /\ e \in {"durable", "memory"}
        /\ pc' = [pc EXCEPT ![c] = e]
        /\ empty' = (empty \ {c}) \cup mute
    BY <2>a
  <2>3. UNCHANGED <<consumed, store, sigs, crashes>>
    BY <1>1 DEF Call
  <2>4. R[h] \in Durable => e = "durable"
    BY <2>2 DEF Durable
  <2>5. \A d \in Caller \ {c} : pc'[d] = pc[d] /\ handle'[d] = handle[d]
    BY <2>1, <2>2
  <2>6. pc'[c] = e /\ handle'[c] = h
    BY <2>1, <2>2
  <2>7. TypeOK'
    BY <2>1, <2>2, <2>3
  <2>8. ActiveInv'
    BY <2>2, <2>3, <2>4, <2>5, <2>6 DEF ActiveInv
  <2>9. SigsInv' /\ FlagInv'
    BY <2>2, <2>3, <2>5, <2>6 DEF SigsInv, FlagInv
  <2>10. BurnInv'
    BY <2>1, <2>2, <2>3 DEF BurnInv, CanSign
  <2>. QED  BY <2>7, <2>8, <2>9, <2>10
<1>2. ASSUME NEW c \in Caller, Reject(c) PROVE IInv'
  <2>1. /\ pc' = [pc EXCEPT ![c] = "idle"]
        /\ UNCHANGED <<consumed, store, handle, empty, sigs, crashes>>
    BY <1>2 DEF Reject
  <2>2. TypeOK' /\ ActiveInv' /\ SigsInv'
    BY <2>1 DEF ActiveInv, SigsInv
  <2>3. FlagInv' /\ BurnInv'
    BY <2>1 DEF FlagInv, BurnInv, CanSign
  <2>. QED  BY <2>2, <2>3
<1>3. ASSUME NEW c \in Caller, CheckAndRecord(c) PROVE IInv'
  <2>1. /\ handle[c] \in Handle /\ R[handle[c]] \in Nonce
        /\ pc[c] = "durable" /\ CanSign(c)
        /\ UNCHANGED <<consumed, handle, empty, sigs, crashes>>
        /\ store \subseteq store' /\ store' \subseteq store \cup {R[handle[c]]}
    BY <1>3 DEF CheckAndRecord, FitForStore, CanSign
  <2>2. \/ pc' = [pc EXCEPT ![c] = "idle"]
        \/ /\ R[handle[c]] \notin store /\ R[handle[c]] \in store'
           /\ pc' = [pc EXCEPT ![c] = "recorded"]
    BY <1>3 DEF CheckAndRecord
  <2>3. TypeOK'
    BY <2>1, <2>2
  <2>4. ActiveInv'
    BY <2>1, <2>2 DEF ActiveInv, SigsInv
  <2>5. SigsInv'
    BY <2>1 DEF SigsInv
  <2>6. FlagInv'
    BY <2>1, <2>2 DEF FlagInv
  <2>7. BurnInv'
    BY <2>1, <2>2 DEF BurnInv, CanSign
  <2>. QED  BY <2>3, <2>4, <2>5, <2>6, <2>7
<1>4. ASSUME NEW c \in Caller, CompareAndSwap(c) PROVE IInv'
  <2>1. /\ pc[c] \in {"memory", "recorded"} /\ CanSign(c)
        /\ handle[c] \in Handle /\ R[handle[c]] \in Nonce
        /\ UNCHANGED <<store, handle, empty, sigs, crashes>>
    BY <1>4 DEF CompareAndSwap, FitForFlag, CanSign
  <2>2. \/ pc' = [pc EXCEPT ![c] = "idle"] /\ consumed' = consumed
        \/ /\ pc' = [pc EXCEPT ![c] = "won"]
           /\ handle[c] \notin consumed /\ consumed' = consumed \cup {handle[c]}
    BY <1>4 DEF CompareAndSwap
  <2>3. TypeOK'
    BY <2>1, <2>2
  <2>4. ActiveInv' /\ SigsInv'
    BY <2>1, <2>2 DEF ActiveInv, SigsInv
  <2>5. FlagInv'
    <3>1. CASE pc' = [pc EXCEPT ![c] = "idle"] /\ consumed' = consumed
      BY <3>1, <2>1 DEF FlagInv
    <3>2. CASE /\ pc' = [pc EXCEPT ![c] = "won"]
               /\ handle[c] \notin consumed /\ consumed' = consumed \cup {handle[c]}
      <4>1. SUFFICES ASSUME crashes = 0 PROVE FlagInv'
        BY <2>1 DEF FlagInv
      <4>2. ASSUME Single(NonceOf(c))
            PROVE  /\ sigs[NonceOf(c)] = 0
                   /\ \A d \in Caller \ {c} : pc[d] = "won" => NonceOf(d) # NonceOf(c)
        <5>1. sigs[NonceOf(c)] = 0
          BY <4>1, <4>2, <3>2, <2>1 DEF FlagInv
        <5>2. ASSUME NEW d \in Caller \ {c}, pc[d] = "won", NonceOf(d) = NonceOf(c)
              PROVE  FALSE
          <6>1. handle[d] \in Handle /\ handle[d] = handle[c]
            BY <4>2, <5>2, <2>1 DEF Single
          <6>2. handle[d] \in consumed
            BY <4>1, <4>2, <5>2 DEF FlagInv
          <6>. QED  BY <6>1, <6>2, <3>2
        <5>. QED  BY <5>1, <5>2
      <4>3. \A d \in Caller \ {c} : pc'[d] = pc[d]
        BY <3>2
      <4>4. \A d \in Caller : pc'[d] = "won" /\ Single(NonceOf(d)) =>
              /\ handle[d] \in consumed'
              /\ sigs[NonceOf(d)] = 0
              /\ \A e \in Caller : pc'[e] = "won" /\ NonceOf(e) = NonceOf(d) => e = d
        BY <4>1, <4>2, <4>3, <3>2 DEF FlagInv
      <4>5. \A r \in Nonce : Single(r) =>
              /\ sigs[r] <= 1
              /\ sigs[r] # 0 => \A h \in Handle : R[h] = r => h \in consumed'
        BY <4>1, <3>2 DEF FlagInv
      <4>. QED  BY <4>4, <4>5, <2>1 DEF FlagInv, Single
    <3>. QED  BY <3>1, <3>2, <2>2
  <2>6. BurnInv'
    BY <2>1, <2>2 DEF BurnInv, CanSign
  <2>. QED  BY <2>3, <2>4, <2>5, <2>6
<1>5. ASSUME NEW c \in Caller, Finalize(c) PROVE IInv'
  <2>1. /\ pc[c] = "won" /\ handle[c] \in Handle /\ NonceOf(c) \in Nonce
        /\ pc' = [pc EXCEPT ![c] = "idle"]
        /\ UNCHANGED <<consumed, store, handle, empty, crashes>>
    BY <1>5 DEF Finalize
  <2>2. sigs' = [sigs EXCEPT ![NonceOf(c)] = @ + 1] \/ sigs' = sigs
    BY <1>5 DEF Finalize
  <2>3. /\ \A d \in Caller \ {c} : pc'[d] = pc[d]
        /\ pc'[c] = "idle"
        /\ \A r \in Nonce \ {NonceOf(c)} : sigs'[r] = sigs[r]
        /\ sigs'[NonceOf(c)] \in {sigs[NonceOf(c)], sigs[NonceOf(c)] + 1}
    BY <2>1, <2>2
  <2>4. TypeOK'
    BY <2>1, <2>2
  <2>5. ActiveInv'
    BY <2>1, <2>3, <1>0 DEF ActiveInv
  <2>6. SigsInv'
    BY <2>1, <2>3, <1>0 DEF ActiveInv, SigsInv
  <2>7. FlagInv'
    <3>1. SUFFICES ASSUME crashes = 0 PROVE FlagInv'
      BY <2>1 DEF FlagInv
    <3>2. \A d \in Caller : pc'[d] = "won" /\ Single(NonceOf(d)) =>
            /\ handle[d] \in consumed
            /\ sigs'[NonceOf(d)] = 0
            /\ \A e \in Caller : pc'[e] = "won" /\ NonceOf(e) = NonceOf(d) => e = d
      BY <3>1, <2>1, <2>3 DEF FlagInv
    <3>3. \A r \in Nonce : Single(r) =>
            /\ sigs'[r] <= 1
            /\ sigs'[r] # 0 => \A h \in Handle : R[h] = r => h \in consumed
      <4>1. ASSUME NEW r \in Nonce, Single(r), r = NonceOf(c)
            PROVE  sigs'[r] <= 1 /\ \A h \in Handle : R[h] = r => h \in consumed
        BY <3>1, <4>1, <2>1, <2>3 DEF FlagInv, Single
      <4>. QED  BY <3>1, <4>1, <2>3 DEF FlagInv
    <3>. QED  BY <3>2, <3>3, <2>1 DEF FlagInv, Single
  <2>8. BurnInv'
    BY <2>1 DEF BurnInv, CanSign
  <2>. QED  BY <2>4, <2>5, <2>6, <2>7, <2>8
<1>6. CASE Crash
  <2>1. /\ crashes' = crashes + 1 /\ crashes' # 0 /\ consumed' = {}
        /\ pc' = [c \in Caller |-> "idle"]
        /\ UNCHANGED <<store, handle, empty, sigs>>
    BY <1>6 DEF Crash
  <2>2. TypeOK'
    BY <2>1, <1>6 DEF Crash
  <2>3. ActiveInv' /\ SigsInv' /\ FlagInv' /\ BurnInv'
    BY <2>1 DEF ActiveInv, SigsInv, FlagInv, BurnInv, CanSign
  <2>. QED  BY <2>2, <2>3
<1>7. CASE UNCHANGED vars
  BY <1>7 DEF vars, ActiveInv, SigsInv, FlagInv, BurnInv, CanSign
<1>. QED  BY <1>1, <1>2, <1>3, <1>4, <1>5, <1>6, <1>7 DEF Next, Step

\* The invariant holds in every behaviour.
LEMMA Invariance == Spec => []IInv
<1>1. IInv /\ [Next]_vars => IInv'
  BY NextIInv
<1>. QED  BY <1>1, InitIInv, PTL DEF Spec

\* No nonce signs twice: with SignWithPresignDurable whatever the callers, the
\* copies of a presign, the failures and the crashes, with SignWithPresign as
\* long as there is one copy and no crash.
THEOREM NoNonceSignsTwice == Spec => []NonceSignsOnce
<1>1. IInv => NonceSignsOnce
  BY DEF IInv, SigsInv, FlagInv, NonceSignsOnce
<1>. QED  BY <1>1, Invariance, PTL

\* A call that cannot sign burns neither a record nor a flag, and one that has
\* burned either is refused by no later test: what SignWithPresignDurable lets
\* through to the store, SignWithPresign lets through to the flag.
THEOREM MisuseIsHarmless == Spec => MisuseBurnsNothing
<1> DEFINE Burn == store' # store \/ ~(consumed' \subseteq consumed)
           Kept == /\ Burn => \E c \in Caller : pc'[c] # pc[c] /\ CanSign(c)
                   /\ \A c \in Caller : Active(c) => CanSign(c)
<1>1. IInv /\ [Next]_vars => [Kept]_vars
  <2>. SUFFICES ASSUME IInv, Next PROVE Kept
    OBVIOUS
  <2>1. ASSUME Burn PROVE \E c \in Caller : pc'[c] # pc[c] /\ CanSign(c)
    <3>1. PICK c \in Caller : CheckAndRecord(c) \/ CompareAndSwap(c)
      BY <2>1 DEF Next, Step, Crash, Call, Reject, Finalize
    <3>2. pc[c] \in {"durable", "memory", "recorded"} /\ CanSign(c)
      BY <3>1 DEF CheckAndRecord, CompareAndSwap, FitForStore, FitForFlag, CanSign
    <3>3. CASE CheckAndRecord(c)
      BY <3>2, <3>3 DEF CheckAndRecord, Return, IInv, TypeOK
    <3>4. CASE CompareAndSwap(c)
      BY <3>2, <3>4 DEF CompareAndSwap, Return, IInv, TypeOK
    <3>. QED  BY <3>1, <3>3, <3>4
  <2>. QED  BY <2>1 DEF IInv, BurnInv
<1>. QED  BY <1>1, Invariance, PTL DEF Spec, MisuseBurnsNothing

\* The flags, records and counts keep their types: no call runs with a nil
\* presign.
THEOREM TypeCorrect == Spec => []TypeOK
<1>1. IInv => TypeOK
  BY DEF IInv
<1>. QED  BY <1>1, Invariance, PTL

\* The durable entry point implements OneTimeNonce: CheckAndRecord spends the
\* nonce, Finalize signs with it, the other steps stutter.
THEOREM DurableRefinement == Spec => ImplementsOneTimeNonce
<1> DEFINE Spent == store \cap Durable
           Sigs == [r \in Durable |-> sigs[r]]
<1>0. Durable \subseteq Nonce
  BY DEF Durable
<1>1. Init => Abstract!Init
  BY <1>0 DEF Init, Abstract!Init
<1>2. IInv /\ [Next]_vars => [Abstract!Next]_<<Spent, Sigs>>
  <2>. SUFFICES ASSUME IInv, [Next]_vars, <<Spent, Sigs>>' # <<Spent, Sigs>>
                PROVE  Abstract!Next
    OBVIOUS
  <2>1. store' # store \/ sigs' # sigs
    OBVIOUS
  <2>2. PICK c \in Caller : CheckAndRecord(c) \/ Finalize(c)
    BY <2>1 DEF Next, Step, vars, Crash, Call, Reject, CompareAndSwap
  <2>3. NonceOf(c) \in Nonce
    BY <2>2, PresignAssumption DEF CheckAndRecord, Finalize, IInv, TypeOK, NonceOf
  <2>4. CASE CheckAndRecord(c)
    <3>1. store' = store \cup {NonceOf(c)} /\ sigs' = sigs
      BY <2>1, <2>4 DEF CheckAndRecord, NonceOf
    <3>2. Sigs' = Sigs
      BY <3>1
    <3>3. NonceOf(c) \in Durable \ Spent /\ Spent' = Spent \cup {NonceOf(c)}
      BY <3>1, <3>2
    <3>. QED  BY <3>2, <3>3 DEF Abstract!Next, Abstract!Spend
  <2>5. CASE Finalize(c)
    <3>1. /\ store' = store
          /\ sigs' = [sigs EXCEPT ![NonceOf(c)] = @ + 1]
      BY <2>1, <2>5 DEF Finalize, NonceOf
    <3>2. Spent' = Spent /\ Sigs' # Sigs
      BY <3>1
    <3>3. NonceOf(c) \in Durable
      <4>1. ASSUME NonceOf(c) \notin Durable PROVE Sigs' = Sigs
        BY <4>1, <3>1, <2>3, <1>0 DEF IInv, TypeOK
      <4>. QED  BY <4>1, <3>2
    <3>4. NonceOf(c) \in Spent /\ sigs[NonceOf(c)] = 0
      BY <2>5, <3>3 DEF Finalize, IInv, ActiveInv, Active
    <3>5. Sigs' = [Sigs EXCEPT ![NonceOf(c)] = 1]
      <4>1. \A r \in Durable : sigs'[r] = IF r = NonceOf(c) THEN 1 ELSE sigs[r]
        BY <3>1, <3>3, <3>4, <1>0 DEF IInv, TypeOK
      <4>. QED  BY <4>1, <3>3, Zenon
    <3>. QED  BY <3>2, <3>3, <3>4, <3>5, Zenon DEF Abstract!Next, Abstract!Sign
  <2>. QED  BY <2>2, <2>4, <2>5
<1>. QED
  BY <1>1, <1>2, Invariance, PTL
  DEF Spec, ImplementsOneTimeNonce, Abstract!Spec, Abstract!vars
=============================================================================
