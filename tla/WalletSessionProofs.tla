------------------------ MODULE WalletSessionProofs ------------------------
(* What holds of the wallet session and of the submissions for any number  *)
(* of accounts, overlapping connections and submissions.                   *)
EXTENDS WalletSession, TLAPS

\* The submissions: the spinner turns for the active one, which is the only
\* one alive and is for the connected wallet.
SubmitInv ==
    /\ form.isSubmitting =>
          /\ form.activeSubmit # None
          /\ attempt[form.activeSubmit].pc # "idle"
          /\ ~attempt[form.activeSubmit].aborted
    /\ LiveSubmissionIsCurrent

\* The session: who may still change it.
SessionInv ==
    /\ DisconnectSticks
    /\ left => sessionAction \notin Calls
    /\ wallet.isConnecting => sessionAction \in Calls /\ call[sessionAction] # "idle"

\* The inductive invariant.
IndInv == TypeOK /\ SubmitInv /\ SessionInv

-----------------------------------------------------------------------------
(* Rendering.                                                              *)

\* The effect of the provider touches only the error flags, and those only
\* of a connected session (WalletContext.tsx:92-102).
LEMMA SessionEffect ==
    ASSUME wallet \in Wallet, NEW w \in Wallet
    PROVE  /\ session_effect(w) \in Wallet
           /\ session_effect(w).publicKey = w.publicKey
           /\ session_effect(w).isConnecting = w.isConnecting
           /\ w.publicKey = None => session_effect(w).connectError = w.connectError
  BY DEF session_effect, Wallet

\* Aborting the active submission leaves none alive.
LEMMA AbortActive ==
    ASSUME TypeOK, SubmitInv
    PROVE  /\ abort_active \in [Attempts -> Attempt]
           /\ \A a \in Attempts : /\ abort_active[a].pc = attempt[a].pc
                                  /\ abort_active[a].publicKey = attempt[a].publicKey
           /\ \A a \in Attempts : abort_active[a].pc # "idle" => abort_active[a].aborted
<1> SUFFICES ASSUME NEW a \in Attempts
             PROVE  /\ abort_active[a] \in Attempt
                    /\ abort_active[a].pc = attempt[a].pc
                    /\ abort_active[a].publicKey = attempt[a].publicKey
                    /\ abort_active[a].pc # "idle" => abort_active[a].aborted
  BY DEF abort_active
<1>1. PICK t \in Attempt : t = attempt[a]
  BY DEF TypeOK
<1>2. abort_active[a] = IF a = form.activeSubmit THEN [t EXCEPT !.aborted = TRUE] ELSE t
  BY <1>1 DEF abort_active
<1>3. CASE a = form.activeSubmit
  BY <1>1, <1>2, <1>3 DEF Attempt
<1>4. CASE a # form.activeSubmit
  BY <1>1, <1>2, <1>4 DEF Attempt, SubmitInv, LiveSubmissionIsCurrent
<1>5. QED
  BY <1>3, <1>4

\* A render for another wallet ends the submission of the one before
\* (SubscriptionForm.tsx:1489-1499).
LEMMA RenderSubmit ==
    ASSUME TypeOK, SubmitInv, NEW w \in Wallet, render(w), wallet'.publicKey = w.publicKey
    PROVE  form' \in Form /\ attempt' \in [Attempts -> Attempt] /\ SubmitInv'
<1>1. CASE w.publicKey = wallet.publicKey
  BY <1>1 DEF render, TypeOK, SubmitInv, LiveSubmissionIsCurrent
<1>2. CASE w.publicKey # wallet.publicKey
  <2>1. wallet_changed(w.publicKey)
    BY <1>2 DEF render
  <2>2. CASE form.activeSubmit # None /\ attempt[form.activeSubmit].publicKey = w.publicKey
    <3>1. UNCHANGED <<form, attempt>>
      BY <2>1, <2>2 DEF wallet_changed
    <3>2. \A a \in Attempts : ~(attempt[a].pc # "idle" /\ ~attempt[a].aborted)
      BY <1>2, <2>2 DEF SubmitInv, LiveSubmissionIsCurrent
    <3>3. ~form.isSubmitting
      BY <3>2 DEF SubmitInv, TypeOK, Form
    <3>4. QED
      BY <3>1, <3>2, <3>3 DEF TypeOK, SubmitInv, LiveSubmissionIsCurrent
  <2>3. CASE ~(form.activeSubmit # None /\ attempt[form.activeSubmit].publicKey = w.publicKey)
    <3>1. /\ attempt' = abort_active
          /\ form' = [form EXCEPT !.activeSubmit = None, !.isSubmitting = FALSE,
                                  !.isConfirming = FALSE]
      BY <2>1, <2>3 DEF wallet_changed
    <3>2. form' \in Form /\ ~form'.isSubmitting
      BY <3>1 DEF TypeOK, Form
    <3>3. QED
      BY <3>1, <3>2, AbortActive DEF SubmitInv, LiveSubmissionIsCurrent
  <2>4. QED
    BY <2>2, <2>3
<1>3. QED
  BY <1>1, <1>2

\* A render of w, in whatever handler: what a step that renders is left to show.
LEMMA Render ==
    ASSUME IndInv, NEW w \in Wallet, render(w)
    PROVE  /\ wallet' \in Wallet
           /\ wallet'.publicKey = w.publicKey
           /\ wallet'.isConnecting = w.isConnecting
           /\ w.publicKey = None => wallet'.connectError = w.connectError
           /\ form' \in Form /\ attempt' \in [Attempts -> Attempt] /\ SubmitInv'
<1>1. wallet' = session_effect(w)
  BY DEF render
<1>2. wallet \in Wallet /\ TypeOK /\ SubmitInv
  BY DEF IndInv, SessionInv, TypeOK
<1>3. QED
  BY <1>1, <1>2, SessionEffect, RenderSubmit

-----------------------------------------------------------------------------
(* The session.                                                            *)

\* The effect on mount, before and after the restoration.
LEMMA InvMount ==
    ASSUME IndInv, mount_detected \/ \E key \in Accounts \cup {None} : mount_restored(key)
    PROVE  IndInv'
<1>0. /\ wallet \in Wallet /\ TypeOK /\ SessionInv
      /\ UNCHANGED <<sessionAction, call, extension, left>>
  BY DEF IndInv, TypeOK, mount_detected, mount_restored
<1>1. ASSUME NEW w \in Wallet, render(w),
             mount' \in {"restore", "done"}, cache' \in {cache, None},
             w.isConnecting = wallet.isConnecting,
             left => w.publicKey = None
      PROVE  IndInv'
  <2>1. /\ wallet' \in Wallet
        /\ wallet'.publicKey = w.publicKey
        /\ wallet'.isConnecting = w.isConnecting
        /\ form' \in Form /\ attempt' \in [Attempts -> Attempt] /\ SubmitInv'
    BY <1>1, Render
  <2>2. TypeOK'
    BY <1>0, <1>1, <2>1 DEF TypeOK
  <2>3. SessionInv'
    BY <1>0, <1>1, <2>1 DEF SessionInv, DisconnectSticks
  <2>4. QED
    BY <2>1, <2>2, <2>3 DEF IndInv
<1>2. CASE mount_detected
  <2> DEFINE x == extension.installed
  <2>x. x \in BOOLEAN
    BY <1>0 DEF TypeOK
  <2>1. CASE sessionAction # "mount"
    <3> DEFINE w == [wallet EXCEPT !.isCheckingFreighter = FALSE]
    <3>1. /\ w \in Wallet /\ w.isConnecting = wallet.isConnecting
          /\ w.publicKey = wallet.publicKey
      BY <1>0 DEF Wallet
    <3>2. render(w) /\ mount' = "done" /\ cache' = cache
      BY <1>2, <2>1 DEF mount_detected
    <3> HIDE DEF w
    <3>3. QED
      BY <1>0, <1>1, <3>1, <3>2 DEF SessionInv, DisconnectSticks
  <2>2. CASE sessionAction = "mount" /\ ~x
    <3> DEFINE w == [wallet EXCEPT !.freighterInstalled = x, !.connectError = TRUE,
                                   !.isCheckingFreighter = FALSE]
    <3>1. /\ w \in Wallet /\ w.isConnecting = wallet.isConnecting
          /\ w.publicKey = wallet.publicKey
      BY <1>0, <2>x DEF Wallet
    <3>2. render(w) /\ mount' = "done" /\ cache' = None
      BY <1>2, <2>2 DEF mount_detected
    <3> HIDE DEF w
    <3>3. QED
      BY <1>0, <1>1, <2>2, <3>1, <3>2 DEF SessionInv, DisconnectSticks
  <2>3. CASE sessionAction = "mount" /\ x
    <3> DEFINE v == [wallet EXCEPT !.freighterInstalled = x]
    <3> DEFINE w == [wallet EXCEPT !.freighterInstalled = x, !.isCheckingFreighter = FALSE]
    <3>1. /\ v \in Wallet /\ v.isConnecting = wallet.isConnecting
          /\ v.publicKey = wallet.publicKey
      BY <1>0, <2>x, <2>3 DEF Wallet
    <3>2. /\ w \in Wallet /\ w.isConnecting = wallet.isConnecting
          /\ w.publicKey = wallet.publicKey
      BY <1>0, <2>x, <2>3 DEF Wallet
    <3>3. render(v) \/ render(w)
      BY <1>2, <2>3 DEF mount_detected
    <3>4. mount' \in {"done", "restore"} /\ cache' = cache
      BY <1>2, <2>3 DEF mount_detected
    <3> HIDE DEF v, w
    <3>5. QED
      BY <1>0, <1>1, <2>3, <3>1, <3>2, <3>3, <3>4 DEF SessionInv, DisconnectSticks
  <2>4. QED
    BY <2>1, <2>2, <2>3
<1>3. ASSUME NEW key \in Accounts \cup {None}, mount_restored(key) PROVE IndInv'
  <2>0. mount = "restore" /\ mount' = "done"
    BY <1>3 DEF mount_restored
  <2>1. CASE sessionAction # "mount"
    <3> DEFINE w == [wallet EXCEPT !.isCheckingFreighter = FALSE]
    <3>1. /\ w \in Wallet /\ w.isConnecting = wallet.isConnecting
          /\ w.publicKey = wallet.publicKey
      BY <1>0 DEF Wallet
    <3>2. render(w) /\ cache' = cache
      BY <1>3, <2>1 DEF mount_restored
    <3> HIDE DEF w
    <3>3. QED
      BY <1>0, <1>1, <2>0, <3>1, <3>2 DEF SessionInv, DisconnectSticks
  <2>2. CASE sessionAction = "mount" /\ key # None /\ key = cache
    <3> DEFINE w == [wallet EXCEPT !.isCheckingFreighter = FALSE, !.publicKey = key,
                                   !.sessionInvalid = FALSE, !.connectError = FALSE]
    <3>1. /\ w \in Wallet /\ w.isConnecting = wallet.isConnecting
         
      BY <1>0 DEF Wallet
    <3>2. render(w) /\ cache' = cache
      BY <1>3, <2>2 DEF mount_restored
    <3>3. ~left
      BY <1>0, <2>2 DEF SessionInv, DisconnectSticks
    <3> HIDE DEF w
    <3>4. QED
      BY <1>0, <1>1, <2>0, <3>1, <3>2, <3>3
  <2>3. CASE sessionAction = "mount" /\ ~(key # None /\ key = cache)
    <3> DEFINE e == wallet.connectError \/ key # None
    <3> DEFINE w == [wallet EXCEPT !.isCheckingFreighter = FALSE, !.publicKey = None,
                                   !.connectError = e]
    <3>1. /\ w \in Wallet /\ w.isConnecting = wallet.isConnecting
          /\ w.publicKey = None
      BY <1>0 DEF Wallet
    <3>2. render(w) /\ cache' = None
      BY <1>3, <2>3 DEF mount_restored
    <3> HIDE DEF w
    <3>3. QED
      BY <1>0, <1>1, <2>0, <3>1, <3>2
  <2>4. QED
    BY <2>1, <2>2, <2>3
<1>4. QED
  BY <1>2, <1>3

\* connect() and disconnect() take over the session.
LEMMA InvTakeOver ==
    ASSUME IndInv, disconnect \/ \E c \in Calls : connect(c)
    PROVE  IndInv'
<1>0. wallet \in Wallet /\ TypeOK /\ SessionInv
  BY DEF IndInv, TypeOK
<1>1. ASSUME NEW c \in Calls, connect(c) PROVE IndInv'
  <2> DEFINE w == [wallet EXCEPT !.isConnecting = TRUE, !.connectError = FALSE,
                                 !.sessionInvalid = FALSE]
  <2>1. /\ w \in Wallet /\ w.isConnecting
        /\ w.publicKey = wallet.publicKey
    BY <1>0 DEF Wallet
  <2>2. /\ render(w) /\ sessionAction' = c /\ call[c] = "idle"
        /\ call' = [call EXCEPT ![c] = "detect"] /\ ~left'
        /\ UNCHANGED <<cache, mount, extension>> /\ left' \in BOOLEAN
    BY <1>1 DEF connect
  <2> HIDE DEF w
  <2>3. /\ wallet' \in Wallet
        /\ form' \in Form /\ attempt' \in [Attempts -> Attempt] /\ SubmitInv'
    BY <2>1, <2>2, Render
  <2>4. TypeOK'
    BY <1>0, <2>2, <2>3 DEF TypeOK
  <2>5. call'[c] = "detect"
    BY <1>0, <2>2 DEF TypeOK
  <2>6. SessionInv'
    BY <2>2, <2>3, <2>5 DEF SessionInv, DisconnectSticks
  <2>7. QED
    BY <2>3, <2>4, <2>6 DEF IndInv
<1>2. CASE disconnect
  <2> DEFINE w == [wallet EXCEPT !.publicKey = None, !.connectError = FALSE,
                                 !.sessionInvalid = FALSE, !.isConnecting = FALSE]
  <2>1. w \in Wallet /\ ~w.isConnecting /\ w.publicKey = None
    BY <1>0 DEF Wallet
  <2>2. /\ render(w) /\ sessionAction' = "disconnect" /\ cache' = None /\ left' = TRUE
        /\ UNCHANGED <<mount, call, extension>>
    BY <1>2 DEF disconnect
  <2> HIDE DEF w
  <2>3. /\ wallet' \in Wallet /\ wallet'.publicKey = None
        /\ wallet'.isConnecting = w.isConnecting
        /\ form' \in Form /\ attempt' \in [Attempts -> Attempt] /\ SubmitInv'
    BY <2>1, <2>2, Render
  <2>4. TypeOK'
    BY <1>0, <2>2, <2>3 DEF TypeOK
  <2>5. SessionInv'
    BY <2>1, <2>2, <2>3, NamesAssumption DEF SessionInv, DisconnectSticks, overtaken
  <2>6. QED
    BY <2>3, <2>4, <2>5 DEF IndInv
<1>3. QED
  BY <1>1, <1>2

\* The later steps of connect(): an overtaken call changes nothing, and the
\* others are those of the session.
LEMMA InvConnect ==
    ASSUME IndInv, NEW c \in Calls,
           \/ connect_detected(c) \/ access_granted(c)
           \/ connect_address(c) \/ connect_error(c)
    PROVE  IndInv'
<1>0. wallet \in Wallet /\ TypeOK /\ SessionInv /\ SubmitInv
  BY DEF IndInv, TypeOK
<1>u. UNCHANGED <<sessionAction, mount, extension, left>>
  BY DEF connect_detected, access_granted, connect_address, connect_error
<1>1. ASSUME overtaken(c) \/ access_granted(c), UNCHANGED <<wallet, form, attempt, cache>>,
             NEW s \in {"idle", "address"}, call' = [call EXCEPT ![c] = s],
             s = "address" => call[c] = "access"
      PROVE  IndInv'
  <2>1. TypeOK'
    BY <1>0, <1>u, <1>1 DEF TypeOK
  <2>2. SubmitInv'
    BY <1>0, <1>1 DEF SubmitInv, LiveSubmissionIsCurrent
  <2>3. \A d \in Calls : /\ d # c => call'[d] = call[d]
                         /\ call'[c] = s
    BY <1>0, <1>1 DEF TypeOK
  <2>4. wallet'.isConnecting => sessionAction' \in Calls /\ call'[sessionAction'] # "idle"
    BY <1>0, <1>u, <1>1, <2>3 DEF SessionInv, overtaken, access_granted
  <2>5. SessionInv'
    BY <1>0, <1>u, <1>1, <2>4 DEF SessionInv, DisconnectSticks
  <2>6. QED
    BY <2>1, <2>2, <2>5 DEF IndInv
<1>2. ASSUME ~overtaken(c), NEW w \in Wallet, render(w),
             cache' \in {cache} \cup Accounts,
             NEW s \in {"idle", "access"}, call' = [call EXCEPT ![c] = s],
             s = "idle" => ~w.isConnecting
      PROVE  IndInv'
  <2>1. /\ wallet' \in Wallet
        /\ wallet'.isConnecting = w.isConnecting
        /\ form' \in Form /\ attempt' \in [Attempts -> Attempt] /\ SubmitInv'
    BY <1>2, Render
  <2>2. TypeOK'
    BY <1>0, <1>u, <1>2, <2>1 DEF TypeOK
  <2>3. sessionAction' = c /\ ~left'
    BY <1>0, <1>u, <1>2 DEF overtaken, SessionInv
  <2>4. call'[c] = s
    BY <1>0, <1>2 DEF TypeOK
  <2>5. wallet'.isConnecting => sessionAction' \in Calls /\ call'[sessionAction'] # "idle"
    BY <1>2, <2>1, <2>3, <2>4 DEF Wallet
  <2>6. SessionInv'
    BY <2>1, <2>3, <2>5 DEF SessionInv, DisconnectSticks
  <2>7. QED
    BY <2>1, <2>2, <2>6 DEF IndInv
<1>3. CASE access_granted(c)
  BY <1>1, <1>3 DEF access_granted
<1>4. CASE connect_detected(c)
  <2> DEFINE x == extension.installed
  <2>x. x \in BOOLEAN
    BY <1>0 DEF TypeOK
  <2>1. CASE overtaken(c)
    BY <1>1, <1>4, <2>1 DEF connect_detected, ended
  <2>2. CASE ~overtaken(c) /\ ~x
    <3> DEFINE w == [wallet EXCEPT !.freighterInstalled = x, !.connectError = TRUE,
                                   !.isConnecting = FALSE]
    <3>1. w \in Wallet /\ ~w.isConnecting
      BY <1>0, <2>x DEF Wallet
    <3>2. render(w) /\ call' = [call EXCEPT ![c] = "idle"] /\ cache' = cache
      BY <1>4, <2>2 DEF connect_detected, ended
    <3> HIDE DEF w
    <3>3. QED
      BY <1>2, <2>2, <3>1, <3>2
  <2>3. CASE ~overtaken(c) /\ x
    <3> DEFINE w == [wallet EXCEPT !.freighterInstalled = x]
    <3>1. w \in Wallet
      BY <1>0, <2>x, <2>3 DEF Wallet
    <3>2. render(w) /\ call' = [call EXCEPT ![c] = "access"] /\ cache' = cache
      BY <1>4, <2>3 DEF connect_detected
    <3> HIDE DEF w
    <3>3. QED
      BY <1>2, <2>3, <3>1, <3>2
  <2>4. QED
    BY <2>1, <2>2, <2>3
<1>5. CASE connect_address(c)
  <2>1. CASE overtaken(c)
    BY <1>1, <1>5, <2>1 DEF connect_address, ended
  <2>2. CASE ~overtaken(c)
    <3>1. PICK k \in Accounts : k = extension.account
      BY <1>0 DEF TypeOK
    <3> DEFINE w == [wallet EXCEPT !.publicKey = k, !.isConnecting = FALSE]
    <3>2. w \in Wallet /\ ~w.isConnecting
      BY <1>0 DEF Wallet
    <3>3. render(w) /\ call' = [call EXCEPT ![c] = "idle"] /\ cache' = k
      BY <1>5, <2>2, <3>1 DEF connect_address, ended
    <3> HIDE DEF w
    <3>4. QED
      BY <1>2, <2>2, <3>2, <3>3
  <2>3. QED
    BY <2>1, <2>2
<1>6. CASE connect_error(c)
  <2>1. CASE overtaken(c)
    BY <1>1, <1>6, <2>1 DEF connect_error, ended
  <2>2. CASE ~overtaken(c)
    <3> DEFINE w == [wallet EXCEPT !.publicKey = None, !.connectError = TRUE,
                                   !.isConnecting = FALSE]
    <3>1. w \in Wallet /\ ~w.isConnecting
      BY <1>0 DEF Wallet
    <3>2. render(w) /\ call' = [call EXCEPT ![c] = "idle"] /\ cache' = cache
      BY <1>6, <2>2 DEF connect_error, ended
    <3> HIDE DEF w
    <3>3. QED
      BY <1>2, <2>2, <3>1, <3>2
  <2>3. QED
    BY <2>1, <2>2
<1>7. QED
  BY <1>3, <1>4, <1>5, <1>6

-----------------------------------------------------------------------------
(* The submissions.                                                        *)

\* A step of the form leaves the session alone.
LEMMA FormOnly ==
    ASSUME IndInv, UNCHANGED <<wallet, wallet_vars, extension>>,
           form' \in Form, attempt' \in [Attempts -> Attempt], SubmitInv'
    PROVE  IndInv'
<1>1. TypeOK'
  BY DEF IndInv, TypeOK, wallet_vars
<1>2. SessionInv'
  BY DEF IndInv, SessionInv, wallet_vars, DisconnectSticks, overtaken
<1>3. QED
  BY <1>1, <1>2 DEF IndInv

\* Opening and closing the confirmation, and the outcome of a confirmation by
\* the network.
LEMMA InvForm ==
    ASSUME IndInv, handleSubmit \/ onCancel \/ unmount \/ \E failed \in BOOLEAN : confirmed(failed)
    PROVE  IndInv'
<1>0. TypeOK /\ SubmitInv /\ form \in Form
  BY DEF IndInv, TypeOK
<1>1. ASSUME UNCHANGED <<wallet, wallet_vars, attempt, extension>>, form' \in Form,
             form'.isSubmitting = form.isSubmitting, form'.activeSubmit = form.activeSubmit
      PROVE  IndInv'
  <2>1. SubmitInv'
    BY <1>0, <1>1 DEF SubmitInv, LiveSubmissionIsCurrent
  <2>2. QED
    BY <1>0, <1>1, <2>1, FormOnly DEF TypeOK
<1>2. CASE handleSubmit
  BY <1>0, <1>1, <1>2 DEF handleSubmit, Form
<1>3. CASE onCancel
  BY <1>0, <1>1, <1>3 DEF onCancel, Form
<1>4. ASSUME NEW failed \in BOOLEAN, confirmed(failed) PROVE IndInv'
  BY <1>0, <1>1, <1>4 DEF confirmed, Form
<1>5. CASE unmount
  <2>1. NewForm \in Form /\ ~NewForm.isSubmitting
    BY DEF NewForm, Form
  <2>2. /\ form' = NewForm /\ attempt' = abort_active
        /\ UNCHANGED <<wallet, wallet_vars, extension>>
    BY <1>5 DEF unmount
  <2>3. attempt' \in [Attempts -> Attempt] /\ SubmitInv'
    BY <1>0, <2>1, <2>2, AbortActive DEF SubmitInv, LiveSubmissionIsCurrent
  <2>4. QED
    BY <2>1, <2>2, <2>3, FormOnly
<1>6. QED
  BY <1>2, <1>3, <1>4, <1>5

\* A new submission takes the place of the one before.
LEMMA BeginInv ==
    ASSUME TypeOK, SubmitInv, NEW a \in Attempts, NEW f \in Form, wallet' = wallet,
           wallet.publicKey # None, beginSubmitAttempt(a, f)
    PROVE  form' \in Form /\ attempt' \in [Attempts -> Attempt] /\ SubmitInv'
<1> DEFINE new == [pc |-> "getAccount", publicKey |-> wallet.publicKey, aborted |-> FALSE]
<1>1. /\ attempt' = [abort_active EXCEPT ![a] = new]
      /\ form' = [f EXCEPT !.activeSubmit = a, !.isSubmitting = TRUE, !.txError = FALSE]
  BY DEF beginSubmitAttempt
<1>2. new \in Attempt /\ new.pc = "getAccount" /\ new.publicKey = wallet.publicKey /\ ~new.aborted
  BY DEF Attempt, TypeOK, Wallet
<1> HIDE DEF new
<1>3. form' \in Form /\ form'.activeSubmit = a
  BY <1>1 DEF Form
<1>4. /\ attempt' \in [Attempts -> Attempt] /\ attempt'[a] = new
      /\ \A b \in Attempts : b # a /\ attempt'[b].pc # "idle" => attempt'[b].aborted
  BY <1>1, <1>2, AbortActive
<1>5. a # None
  BY NoneAssumption
<1>6. QED
  BY <1>2, <1>3, <1>4, <1>5 DEF SubmitInv, LiveSubmissionIsCurrent

\* Submissions from their first request to their end.
LEMMA InvSubmit ==
    ASSUME IndInv, NEW a \in Attempts,
           \/ confirmAndSubmit(a) \/ handleRetry(a)
           \/ submit_step(a) \/ submit_sent(a) \/ submit_error(a)
    PROVE  IndInv'
<1>0. TypeOK /\ SubmitInv /\ form \in Form /\ attempt[a] \in Attempt
  BY DEF IndInv, TypeOK
<1>u. UNCHANGED <<wallet, wallet_vars, extension>>
  BY DEF confirmAndSubmit, handleRetry, submit_step, submit_sent, submit_error, submit_ends
<1>1. CASE confirmAndSubmit(a)
  <2> DEFINE f == [form EXCEPT !.showConfirm = FALSE]
  <2>1. f \in Form /\ f.isSubmitting = form.isSubmitting /\ f.activeSubmit = form.activeSubmit
    BY <1>0 DEF Form
  <2>2. IF wallet.publicKey = None THEN form' = f /\ attempt' = attempt
                                   ELSE beginSubmitAttempt(a, f)
    BY <1>1 DEF confirmAndSubmit
  <2> HIDE DEF f
  <2>3. CASE wallet.publicKey = None
    <3>1. form' \in Form /\ attempt' \in [Attempts -> Attempt]
      BY <1>0, <2>1, <2>2, <2>3 DEF TypeOK
    <3>2. SubmitInv'
      BY <1>0, <1>u, <2>1, <2>2, <2>3 DEF SubmitInv, LiveSubmissionIsCurrent
    <3>3. QED
      BY <1>u, <3>1, <3>2, FormOnly
  <2>4. CASE wallet.publicKey # None
    BY <1>0, <1>u, <2>1, <2>2, <2>4, BeginInv, FormOnly
  <2>5. QED
    BY <2>3, <2>4
<1>2. CASE handleRetry(a)
  BY <1>0, <1>u, <1>2, BeginInv, FormOnly DEF handleRetry
<1>3. CASE submit_step(a)
  <2>1. PICK t \in Attempt : t = attempt[a]
    BY <1>0
  <2>2. t.pc \in {"getAccount", "prepare", "sign"} /\ ~t.aborted /\ form' = form
    BY <1>3, <2>1 DEF submit_step
  <2>3. next_pc(t.pc) \in {"prepare", "sign", "send"}
    BY <2>2 DEF next_pc
  <2>4. PICK s \in Attempt : s = [t EXCEPT !.pc = next_pc(t.pc)]
    BY <2>3 DEF Attempt
  <2>5. s.pc # "idle" /\ s.publicKey = t.publicKey /\ s.aborted = t.aborted
    BY <2>3, <2>4 DEF Attempt
  <2>6. attempt' = [attempt EXCEPT ![a] = s]
    BY <1>3, <2>1, <2>4 DEF submit_step
  <2>7. /\ attempt' \in [Attempts -> Attempt] /\ attempt'[a] = s
        /\ \A b \in Attempts : b # a => attempt'[b] = attempt[b]
    BY <1>0, <2>6 DEF TypeOK
  <2>8. form.activeSubmit = a /\ t.publicKey = wallet.publicKey /\ wallet.publicKey # None
    BY <1>0, <2>1, <2>2 DEF SubmitInv, LiveSubmissionIsCurrent
  <2>9. SubmitInv'
    BY <1>0, <1>u, <2>2, <2>5, <2>7, <2>8 DEF SubmitInv, LiveSubmissionIsCurrent
  <2>10. QED
    BY <1>0, <1>u, <2>2, <2>7, <2>9, FormOnly
<1>4. ASSUME NEW sent \in BOOLEAN, submit_ends(a, sent) PROVE IndInv'
  <2>1. /\ NoAttempt \in Attempt /\ NoAttempt.pc = "idle"
        /\ attempt' = [attempt EXCEPT ![a] = NoAttempt]
    BY <1>4 DEF submit_ends, NoAttempt, Attempt
  <2>2. /\ attempt' \in [Attempts -> Attempt] /\ attempt'[a].pc = "idle"
        /\ \A b \in Attempts : b # a => attempt'[b] = attempt[b]
    BY <1>0, <2>1 DEF TypeOK
  <2>3. CASE isCurrentSubmitAttempt(a)
    <3>1. form' = [form EXCEPT !.activeSubmit = None, !.isSubmitting = FALSE,
                               !.isConfirming = sent, !.txError = ~sent]
      BY <1>4, <2>3 DEF submit_ends
    <3>2. form' \in Form /\ ~form'.isSubmitting
      BY <1>0, <3>1 DEF Form
    <3>3. \A b \in Attempts : ~(attempt'[b].pc # "idle" /\ ~attempt'[b].aborted)
      BY <1>0, <2>2, <2>3 DEF SubmitInv, LiveSubmissionIsCurrent, isCurrentSubmitAttempt
    <3>4. QED
      BY <1>u, <2>2, <3>2, <3>3, FormOnly DEF SubmitInv, LiveSubmissionIsCurrent
  <2>4. CASE ~isCurrentSubmitAttempt(a)
    <3>1. form' = form
      BY <1>4, <2>4 DEF submit_ends
    <3>2. form.isSubmitting => form.activeSubmit # a /\ form.activeSubmit \in Attempts
      BY <1>0, <2>4 DEF SubmitInv, isCurrentSubmitAttempt, Form
    <3>3. SubmitInv'
      BY <1>0, <1>u, <2>2, <3>1, <3>2 DEF SubmitInv, LiveSubmissionIsCurrent
    <3>4. QED
      BY <1>0, <1>u, <2>2, <3>1, <3>3, FormOnly
  <2>5. QED
    BY <2>3, <2>4
<1>5. QED
  BY <1>1, <1>2, <1>3, <1>4 DEF submit_sent, submit_error

-----------------------------------------------------------------------------
(* The results.                                                            *)

\* The first page load satisfies the invariant.
LEMMA InvInit == Init => IndInv
<1> SUFFICES ASSUME Init PROVE IndInv
  OBVIOUS
<1>1. NewWallet \in Wallet /\ NewForm \in Form /\ NoAttempt \in Attempt
  BY DEF NewWallet, Wallet, NewForm, Form, NoAttempt, Attempt
<1>2. TypeOK
  BY <1>1 DEF Init, TypeOK
<1>3. SubmitInv
  BY DEF Init, SubmitInv, LiveSubmissionIsCurrent, NewForm, NoAttempt
<1>4. SessionInv
  BY DEF Init, SessionInv, DisconnectSticks, NewWallet
<1>5. QED
  BY <1>2, <1>3, <1>4 DEF IndInv

\* The extension changes, or the page is loaded again with the cached key.
LEMMA InvEnvironment ==
    ASSUME IndInv,
           \/ \E installed \in BOOLEAN, account \in Accounts : switch(installed, account)
           \/ reload
    PROVE  IndInv'
<1>0. TypeOK /\ SubmitInv /\ SessionInv
  BY DEF IndInv
<1>1. ASSUME NEW installed \in BOOLEAN, NEW account \in Accounts, switch(installed, account)
      PROVE  IndInv'
  <2>1. TypeOK'
    BY <1>0, <1>1 DEF switch, TypeOK, wallet_vars
  <2>2. SubmitInv' /\ SessionInv'
    BY <1>0, <1>1 DEF switch, wallet_vars, SubmitInv, LiveSubmissionIsCurrent, SessionInv,
       DisconnectSticks, overtaken
  <2>3. QED
    BY <2>1, <2>2 DEF IndInv
<1>2. CASE reload
  <2>1. NewWallet \in Wallet /\ NewForm \in Form /\ NoAttempt \in Attempt
    BY DEF NewWallet, Wallet, NewForm, Form, NoAttempt, Attempt
  <2>2. TypeOK'
    BY <1>0, <1>2, <2>1 DEF reload, TypeOK
  <2>3. SubmitInv'
    BY <1>2 DEF reload, SubmitInv, LiveSubmissionIsCurrent, NewForm, NoAttempt
  <2>4. SessionInv'
    BY <1>0, <1>2, NamesAssumption
    DEF reload, SessionInv, DisconnectSticks, NewWallet, overtaken
  <2>5. QED
    BY <2>2, <2>3, <2>4 DEF IndInv
<1>3. QED
  BY <1>1, <1>2

\* The invariant holds in every reachable state.
THEOREM Invariance == Spec => []IndInv
<1>1. IndInv /\ [Next]_vars => IndInv'
  <2> SUFFICES ASSUME IndInv, [Next]_vars PROVE IndInv'
    OBVIOUS
  <2>1. CASE UNCHANGED vars
    BY <2>1 DEF vars, wallet_vars, IndInv, TypeOK, SubmitInv, LiveSubmissionIsCurrent, SessionInv,
       DisconnectSticks, overtaken
  <2>2. QED
    BY <2>1, InvMount, InvTakeOver, InvConnect, InvForm, InvSubmit, InvEnvironment DEF Next
<1>2. QED
  BY <1>1, InvInit, PTL DEF Spec

\* The parts of the page keep their types.
THEOREM TypeCorrect == Spec => []TypeOK
<1>1. IndInv => TypeOK
  BY DEF IndInv
<1>2. QED
  BY <1>1, Invariance, PTL

\* No late answer of the extension, and no cached key, undoes a disconnect.
THEOREM DisconnectHolds == Spec => []DisconnectSticks
<1>1. IndInv => DisconnectSticks
  BY DEF IndInv, SessionInv
<1>2. QED
  BY <1>1, Invariance, PTL

\* Every spinner has a call under way that will end it.
THEOREM SpinnersHold == Spec => []SpinnersHaveWork
<1>1. IndInv => SpinnersHaveWork
  BY DEF IndInv, SessionInv, SubmitInv, SpinnersHaveWork
<1>2. QED
  BY <1>1, Invariance, PTL

\* A submission that is not aborted is the latest, for the connected wallet.
THEOREM LiveSubmissionHolds == Spec => []LiveSubmissionIsCurrent
<1>1. IndInv => LiveSubmissionIsCurrent
  BY DEF IndInv, SubmitInv
<1>2. QED
  BY <1>1, Invariance, PTL

\* One step keeps the error of a failed connect() in sight: only the call that
\* set sessionActionRef last, or the next connect() or disconnect(), touches it.
LEMMA FailedStep ==
    ASSUME IndInv, FailedConnectIsShown, [Next]_vars PROVE FailedConnectIsShown'
<1>0. /\ wallet \in Wallet /\ call \in [Calls -> {"idle", "detect", "access", "address"}]
      /\ extension.installed \in BOOLEAN /\ extension.account \in Accounts /\ TypeOK
  BY DEF IndInv, TypeOK
<1> SUFFICES ASSUME sessionAction' \in Calls, call'[sessionAction'] = "idle", wallet'.publicKey = None
             PROVE  wallet'.connectError
  BY DEF FailedConnectIsShown
<1>1. CASE UNCHANGED <<wallet, sessionAction, call>>
  BY <1>1 DEF FailedConnectIsShown
<1>2. ASSUME NEW w \in Wallet, render(w), w.publicKey = None => w.connectError
      PROVE  wallet'.connectError
  BY <1>2, Render
<1>3. CASE mount_detected \/ \E key \in Accounts \cup {None} : mount_restored(key)
  <2>1. UNCHANGED <<sessionAction, call>> /\ sessionAction # "mount"
    BY <1>3, NamesAssumption DEF mount_detected, mount_restored
  <2> DEFINE w == [wallet EXCEPT !.isCheckingFreighter = FALSE]
  <2>2. /\ w \in Wallet /\ w.publicKey = wallet.publicKey /\ w.connectError = wallet.connectError
    BY <1>0 DEF Wallet
  <2>3. render(w)
    BY <1>3, <2>1 DEF mount_detected, mount_restored
  <2> HIDE DEF w
  <2>4. QED
    BY <1>2, <2>1, <2>2, <2>3 DEF FailedConnectIsShown
<1>4. ASSUME NEW c \in Calls, connect(c) PROVE FALSE
  BY <1>0, <1>4 DEF connect
<1>5. ASSUME NEW c \in Calls, overtaken(c), ended(c), UNCHANGED <<wallet, sessionAction>>
      PROVE  wallet'.connectError
  <2>1. sessionAction # c /\ call[sessionAction] = "idle"
    BY <1>0, <1>5 DEF overtaken, ended
  <2>2. QED
    BY <1>5, <2>1 DEF FailedConnectIsShown
<1>6. ASSUME NEW c \in Calls, connect_detected(c) PROVE wallet'.connectError
  <2> DEFINE x == extension.installed
  <2> DEFINE w == [wallet EXCEPT !.freighterInstalled = x, !.connectError = TRUE,
                                 !.isConnecting = FALSE]
  <2>1. w \in Wallet /\ w.connectError
    BY <1>0 DEF Wallet
  <2>2. CASE overtaken(c)
    BY <1>5, <1>6, <2>2 DEF connect_detected
  <2>3. CASE ~overtaken(c) /\ ~x
    <3>1. render(w)
      BY <1>6, <2>3 DEF connect_detected
    <3> HIDE DEF w
    <3>2. QED
      BY <1>2, <2>1, <3>1
  <2>4. CASE ~overtaken(c) /\ x
    BY <1>0, <1>6, <2>4 DEF connect_detected, overtaken
  <2>5. QED
    BY <2>2, <2>3, <2>4
<1>7. ASSUME NEW c \in Calls, access_granted(c) PROVE wallet'.connectError
  BY <1>0, <1>7 DEF access_granted, FailedConnectIsShown
<1>8. ASSUME NEW c \in Calls, connect_address(c) PROVE wallet'.connectError
  <2>1. CASE overtaken(c)
    BY <1>5, <1>8, <2>1 DEF connect_address
  <2>2. CASE ~overtaken(c)
    <3>1. PICK k \in Accounts : k = extension.account
      BY <1>0
    <3> DEFINE w == [wallet EXCEPT !.publicKey = k, !.isConnecting = FALSE]
    <3>2. w \in Wallet /\ w.publicKey # None
      BY <1>0, NoneAssumption DEF Wallet
    <3>3. render(w)
      BY <1>8, <2>2, <3>1 DEF connect_address
    <3> HIDE DEF w
    <3>4. QED
      BY <1>2, <3>2, <3>3
  <2>3. QED
    BY <2>1, <2>2
<1>9. ASSUME NEW c \in Calls, connect_error(c) PROVE wallet'.connectError
  <2>1. CASE overtaken(c)
    BY <1>5, <1>9, <2>1 DEF connect_error
  <2>2. CASE ~overtaken(c)
    <3> DEFINE w == [wallet EXCEPT !.publicKey = None, !.connectError = TRUE,
                                   !.isConnecting = FALSE]
    <3>1. w \in Wallet /\ w.connectError
      BY <1>0 DEF Wallet
    <3>2. render(w)
      BY <1>9, <2>2 DEF connect_error
    <3> HIDE DEF w
    <3>3. QED
      BY <1>2, <3>1, <3>2
  <2>3. QED
    BY <2>1, <2>2
<1>10. CASE disconnect \/ reload
  BY <1>10, NamesAssumption DEF disconnect, reload
<1>11. CASE \/ handleSubmit \/ onCancel \/ unmount \/ \E failed \in BOOLEAN : confirmed(failed)
            \/ \E installed \in BOOLEAN, account \in Accounts : switch(installed, account)
            \/ \E a \in Attempts : \/ confirmAndSubmit(a) \/ handleRetry(a)
                                   \/ submit_step(a) \/ submit_sent(a) \/ submit_error(a)
            \/ UNCHANGED vars
  <2>1. UNCHANGED <<wallet, sessionAction, call>>
    BY <1>11 DEF handleSubmit, onCancel, unmount, confirmed, switch, confirmAndSubmit, handleRetry,
       submit_step, submit_sent, submit_error, submit_ends, vars, wallet_vars
  <2>2. QED
    BY <1>1, <2>1
<1>12. QED
  BY <1>3, <1>4, <1>6, <1>7, <1>8, <1>9, <1>10, <1>11 DEF Next

\* A connect() that has failed leaves its error on the page.
THEOREM FailedConnectHolds == Spec => []FailedConnectIsShown
<1>1. Init => FailedConnectIsShown
  BY NamesAssumption DEF Init, FailedConnectIsShown
<1>2. QED
  BY <1>1, FailedStep, Invariance, PTL DEF Spec

\* A transaction goes out only for the connected wallet.
THEOREM SendsHold == Spec => SendsForTheSession
<1>1. ASSUME IndInv, [Next]_vars, NEW a \in Attempts,
             attempt[a].pc # "send", attempt'[a].pc = "send"
      PROVE  attempt[a].publicKey = wallet.publicKey /\ form.activeSubmit = a
  <2>0. TypeOK /\ SubmitInv /\ NoAttempt.pc = "idle"
    BY <1>1 DEF IndInv, NoAttempt
  <2>r. ASSUME NEW w, render(w) PROVE FALSE
    BY <1>1, <2>0, <2>r, AbortActive DEF render, wallet_changed
  <2>b. ASSUME NEW b \in Attempts, NEW f, beginSubmitAttempt(b, f) PROVE FALSE
    <3>1. attempt'[a] = IF a = b THEN [pc |-> "getAccount", publicKey |-> wallet.publicKey,
                                       aborted |-> FALSE]
                        ELSE abort_active[a]
      BY <2>0, <2>b, AbortActive DEF beginSubmitAttempt
    <3>2. QED
      BY <1>1, <2>0, <3>1, AbortActive
  <2>e. ASSUME NEW b \in Attempts, NEW sent, submit_ends(b, sent) PROVE FALSE
    BY <1>1, <2>0, <2>e DEF submit_ends, TypeOK
  <2>1. PICK b \in Attempts : submit_step(b)
    BY <1>1, <2>0, <2>r, <2>b, <2>e, AbortActive
    DEF Next, vars, mount_detected, mount_restored, connect, connect_detected, access_granted,
        connect_address, connect_error, disconnect, handleSubmit, onCancel, confirmAndSubmit,
        handleRetry, submit_sent, submit_error, confirmed, unmount, switch, reload
  <2>2. a = b
    BY <1>1, <2>0, <2>1 DEF submit_step, TypeOK
  <2>3. QED
    BY <2>0, <2>1, <2>2 DEF submit_step, SubmitInv, LiveSubmissionIsCurrent
<1>2. IndInv /\ [Next]_vars =>
        [\A a \in Attempts :
           attempt[a].pc # "send" /\ attempt'[a].pc = "send" =>
              /\ attempt[a].publicKey = wallet.publicKey
              /\ form.activeSubmit = a]_vars
  BY <1>1
<1>3. QED
  BY <1>2, Invariance, PTL DEF Spec, SendsForTheSession

=============================================================================
