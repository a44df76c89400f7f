---------------------------- MODULE TxSenderProofs ---------------------------
(***************************************************************************)
(* For every bound on the retries: the types of TxSender, and that it      *)
(* implements the safety part of SendOnce.  The step that needs more than  *)
(* types is the one of the chain: a transaction that lands is one that was *)
(* to be sent, and there is only one signature, so that nothing has taken  *)
(* effect before.                                                          *)
(***************************************************************************)
EXTENDS TxSender, FiniteSetTheorems, TLAPS

\* Nothing is on the way, being confirmed or reported that was not to be sent.
OnlySent == onWay # {} \/ pc \in {"confirming", "ok", "failed"} => action = "sentTx"

Inv == TypeOK /\ OnlySent

\* The attempts share one signature.
LEMMA OneSignature ==
    ASSUME NEW s \in Signatures
    PROVE  s = 1
BY DEF Signatures, TxOfAttempt

LEMMA CurrentIsSignature ==
    ASSUME TypeOK, tries < MaxRetries
    PROVE  Current \in Signatures
<1>1. tries + 1 \in Attempts
  BY MaxRetriesAssumption DEF TypeOK, Attempts
<1>. QED
  BY <1>1 DEF Current, Signatures

\* The number of effects is zero, or one once a signature has taken effect.
LEMMA EffectsCounted ==
    /\ Effects = {} => Cardinality(Effects) = 0
    /\ \A s \in Effects : Cardinality(Effects) = 1
<1>1. ASSUME NEW s \in Effects PROVE Effects = {s}
  BY OneSignature DEF Effects
<1>. QED
  BY <1>1, FS_EmptySet, FS_Singleton

LEMMA InvInit == Init => Inv
<1>. SUFFICES ASSUME Init PROVE Inv
  OBVIOUS
<1>. QED
  BY MaxRetriesAssumption DEF Init, Inv, TypeOK, OnlySent

LEMMA InvStep == Inv /\ [Next]_vars => Inv'
<1>. SUFFICES ASSUME Inv, [Next]_vars PROVE Inv'
  OBVIOUS
<1>. USE MaxRetriesAssumption DEF Inv, TypeOK, OnlySent, chain
<1>1. CASE Answer
  BY <1>1 DEF Answer
<1>2. CASE Send
  BY <1>2, CurrentIsSignature DEF Send
<1>3. CASE SendFails
  BY <1>3 DEF SendFails
<1>4. CASE Confirmed
  BY <1>4 DEF Confirmed
<1>5. CASE NotConfirmed
  BY <1>5 DEF NotConfirmed
<1>6. CASE GiveUp
  BY <1>6 DEF GiveUp
<1>7. ASSUME NEW s \in Signatures, Land(s) PROVE Inv'
  BY <1>7 DEF Land
<1>8. ASSUME NEW s \in Signatures, Lose(s) PROVE Inv'
  BY <1>8 DEF Lose
<1>9. ASSUME NEW s \in Signatures, Expire(s) PROVE Inv'
  BY <1>9 DEF Expire
<1>10. CASE UNCHANGED vars
  BY <1>10 DEF vars
<1>. QED
  BY <1>1, <1>2, <1>3, <1>4, <1>5, <1>6, <1>7, <1>8, <1>9, <1>10 DEF Next, Client

\* Every variable stays in its range; in particular the loop makes at most
\* max_retries attempts, and only what was to be sent is.
THEOREM SenderTypes == Spec => []TypeOK
<1>1. Inv => TypeOK
  BY DEF Inv
<1>. QED
  BY <1>1, InvInit, InvStep, PTL DEF Spec

-----------------------------------------------------------------------------
(* The refinement                                                          *)

LEMMA RefinesInit == Init => Once!Init
<1>. SUFFICES ASSUME Init PROVE Once!Init
  OBVIOUS
<1>1. Effects = {}
  BY DEF Init, Effects
<1>2. Cardinality(Effects) = 0
  BY <1>1, EffectsCounted
<1>. QED
  BY <1>2 DEF Init, Once!Init

\* Steps that leave the chain alone leave the number of effects alone.
LEMMA SameEffects ==
    ASSUME UNCHANGED landed
    PROVE  Cardinality(Effects)' = Cardinality(Effects)
BY DEF Effects

LEMMA RefinesStep == Inv /\ [Next]_vars => [Once!Next]_(Once!vars)
<1>. SUFFICES ASSUME Inv, [Next]_vars PROVE [Once!Next]_(Once!vars)
  OBVIOUS
<1>. USE DEF Inv, TypeOK, OnlySent, chain
<1>1. CASE Answer
  BY <1>1, SameEffects DEF Answer, Once!vars
<1>2. CASE Send
  BY <1>2, SameEffects DEF Send, Once!vars
<1>3. CASE SendFails
  BY <1>3, SameEffects DEF SendFails, Once!vars
<1>4. CASE Confirmed
  <2>1. Current \in Effects
    BY <1>4, CurrentIsSignature DEF Confirmed, Effects
  <2>2. Cardinality(Effects) = 1
    BY <2>1, EffectsCounted
  <2>3. Once!ReportOk
    BY <1>4, <2>2, SameEffects DEF Confirmed, Once!ReportOk
  <2>. QED
    BY <2>3 DEF Once!Next, Once!Report
<1>5. CASE NotConfirmed
  BY <1>5, SameEffects DEF NotConfirmed, Once!vars
<1>6. CASE GiveUp
  <2>1. Once!ReportFailed
    BY <1>6, SameEffects DEF GiveUp, Once!ReportFailed
  <2>. QED
    BY <2>1 DEF Once!Next, Once!Report
<1>7. ASSUME NEW s \in Signatures, Land(s) PROVE [Once!Next]_(Once!vars)
  <2>1. Effects = {}
    BY <1>7, OneSignature DEF Land, Effects
  <2>2. PICK result \in {"ok", "error"} : landed' = [landed EXCEPT ![s] = result]
    BY <1>7 DEF Land
  <2>3. CASE result = "ok"
    <3>1. s \in Effects'
      BY <2>2, <2>3 DEF Effects
    <3>2. Effects' = {s}
      BY <3>1, OneSignature DEF Effects
    <3>3. Cardinality(Effects) = 0 /\ Cardinality(Effects)' = 1
      BY <2>1, <3>2, FS_EmptySet, FS_Singleton
    <3>4. Once!TakeEffect
      BY <1>7, <3>3 DEF Land, Once!TakeEffect
    <3>. QED
      BY <3>4 DEF Once!Next
  <2>4. CASE result = "error"
    <3>1. Effects' = {}
      BY <1>7, <2>2, <2>4, OneSignature DEF Effects
    <3>2. Cardinality(Effects)' = Cardinality(Effects)
      BY <2>1, <3>1
    <3>. QED
      BY <1>7, <3>2 DEF Land, Once!vars
  <2>. QED
    BY <2>3, <2>4
<1>8. ASSUME NEW s \in Signatures, Lose(s) PROVE [Once!Next]_(Once!vars)
  BY <1>8, SameEffects DEF Lose, Once!vars
<1>9. ASSUME NEW s \in Signatures, Expire(s) PROVE [Once!Next]_(Once!vars)
  BY <1>9, SameEffects DEF Expire, Once!vars
<1>10. CASE UNCHANGED vars
  BY <1>10, SameEffects DEF vars, Once!vars
<1>. QED
  BY <1>1, <1>2, <1>3, <1>4, <1>5, <1>6, <1>7, <1>8, <1>9, <1>10 DEF Next, Client

\* Whatever the bound on the retries, and in whatever order attempts break off,
\* copies are lost or arrive late and blockhashes expire, send_transaction_wrapper
\* implements SendOnce: one effect at most, and no success reported without it.
THEOREM SenderSendsOnce == Spec => SendsOnce
<1>. QED
  BY InvInit, InvStep, RefinesInit, RefinesStep, PTL DEF Spec, SendsOnce, Once!Safety
=============================================================================
