--------------------------- MODULE WalletSession ---------------------------
(***************************************************************************)
(* The page's wallet session and the submission of a subscription:         *)
(* frontend/src/context/WalletContext.tsx, lib/wallet_manager.ts, the      *)
(* submit handlers of components/SubscriptionForm.tsx and                  *)
(* buildSignAndSubmitSubscribe of lib/transaction_builder.ts.              *)
(*                                                                         *)
(* JavaScript runs to the next await, so a step is what lies between two   *)
(* awaits, with the effects React runs when it renders.  While the         *)
(* extension or the network is waited for, the user may connect again,     *)
(* disconnect, switch accounts in the extension, close the form or reload. *)
(*                                                                         *)
(* The counter sessionActionRef is only compared with the number of the    *)
(* call that compares it, so it is modelled by the call that set it.  What *)
(* a failed RPC call is retried for has no effect on the page.             *)
(***************************************************************************)
EXTENDS Naturals, FiniteSets

CONSTANTS
    Accounts,       \* the accounts of the extension
    Calls,          \* overlapping calls of connect()
    Attempts,       \* overlapping submissions
    None            \* null

ASSUME NoneAssumption == None \notin Accounts \cup Calls \cup Attempts

ASSUME NamesAssumption == {"mount", "disconnect"} \cap Calls = {}

VARIABLES
    wallet,         \* the state of WalletProvider
    cache,          \* the key in sessionStorage
    sessionAction,  \* sessionActionRef: who has set it last
    mount,          \* the effect that restores a session
    call,           \* connect(), for each call
    form,           \* the state of SubscriptionForm
    attempt,        \* confirmAndSubmit or handleRetry, for each submission
    extension,      \* Freighter: whether it answers, and its active account
    left            \* history: the user has disconnected, and not connected since

wallet_vars == <<cache, sessionAction, mount, call, left>>
vars == <<wallet, wallet_vars, form, attempt, extension>>

Wallet ==
    [publicKey : Accounts \cup {None}, isConnecting : BOOLEAN, connectError : BOOLEAN,
     freighterInstalled : BOOLEAN, isCheckingFreighter : BOOLEAN, sessionInvalid : BOOLEAN]

Form ==
    [showConfirm : BOOLEAN, isSubmitting : BOOLEAN, isConfirming : BOOLEAN,
     txError : BOOLEAN, activeSubmit : Attempts \cup {None}]

Attempt ==
    [pc : {"idle", "getAccount", "prepare", "sign", "send"},
     publicKey : Accounts \cup {None}, aborted : BOOLEAN]

\* The parts of the page keep their types.
TypeOK ==
    /\ wallet \in Wallet
    /\ cache \in Accounts \cup {None}
    /\ sessionAction \in Calls \cup {"mount", "disconnect"}
    /\ mount \in {"detect", "restore", "done"}
    /\ call \in [Calls -> {"idle", "detect", "access", "address"}]
    /\ form \in Form
    /\ attempt \in [Attempts -> Attempt]
    /\ extension \in [installed : BOOLEAN, account : Accounts]
    /\ left \in BOOLEAN

NewWallet ==
    [publicKey |-> None, isConnecting |-> FALSE, connectError |-> FALSE,
     freighterInstalled |-> FALSE, isCheckingFreighter |-> TRUE, sessionInvalid |-> FALSE]

NewForm ==
    [showConfirm |-> FALSE, isSubmitting |-> FALSE, isConfirming |-> FALSE,
     txError |-> FALSE, activeSubmit |-> None]

NoAttempt == [pc |-> "idle", publicKey |-> None, aborted |-> FALSE]

Init ==
    /\ wallet = NewWallet
    /\ cache = None
    /\ sessionAction = "mount"
    /\ mount = "detect"
    /\ call = [c \in Calls |-> "idle"]
    /\ form = NewForm
    /\ attempt = [a \in Attempts |-> NoAttempt]
    /\ extension \in [installed : BOOLEAN, account : Accounts]
    /\ left = FALSE

-----------------------------------------------------------------------------
(* Rendering: what the effects make of a new state.                        *)

\* The effect of WalletProvider on [publicKey, freighterInstalled].
session_effect(w) ==
    IF <<w.publicKey, w.freighterInstalled>> = <<wallet.publicKey, wallet.freighterInstalled>>
       \/ w.publicKey = None
      THEN w
      ELSE [w EXCEPT !.sessionInvalid = ~w.freighterInstalled,
                     !.connectError = ~w.freighterInstalled]

\* controller.abort() of the active submission, if any.
abort_active ==
    [a \in Attempts |-> IF a = form.activeSubmit
                        THEN [attempt[a] EXCEPT !.aborted = TRUE] ELSE attempt[a]]

\* The effect of SubscriptionForm on [publicKey]: the submission under way
\* belongs to the wallet it began with.
wallet_changed(key) ==
    IF form.activeSubmit # None /\ attempt[form.activeSubmit].publicKey = key
      THEN UNCHANGED <<form, attempt>>
      ELSE /\ attempt' = abort_active
           /\ form' = [form EXCEPT !.activeSubmit = None, !.isSubmitting = FALSE,
                                   !.isConfirming = FALSE]

\* A faulty version: the form does not notice another wallet.
render_wallet_only(w) ==
    /\ wallet' = session_effect(w)
    /\ UNCHANGED <<form, attempt>>

render(w) ==
    /\ wallet' = session_effect(w)
    /\ IF w.publicKey = wallet.publicKey THEN UNCHANGED <<form, attempt>>
       ELSE wallet_changed(w.publicKey)

-----------------------------------------------------------------------------
(* The effect on mount.                                                    *)

\* detectFreighter has answered, or given up after its timeout.
mount_detected ==
    LET w == [wallet EXCEPT !.freighterInstalled = extension.installed] IN
    /\ mount = "detect"
    /\ IF sessionAction # "mount"
         THEN /\ render([wallet EXCEPT !.isCheckingFreighter = FALSE])
              /\ mount' = "done" /\ UNCHANGED cache
         ELSE IF ~extension.installed
         THEN /\ render([w EXCEPT !.connectError = TRUE, !.isCheckingFreighter = FALSE])
              /\ mount' = "done" /\ cache' = None
         ELSE IF cache = None
         THEN /\ render([w EXCEPT !.isCheckingFreighter = FALSE])
              /\ mount' = "done" /\ UNCHANGED cache
         ELSE /\ render(w)
              /\ mount' = "restore" /\ UNCHANGED cache
    /\ UNCHANGED <<sessionAction, call, extension, left>>

\* restoreWalletSession has returned key, None when it had none.
mount_restored(key) ==
    LET w == [wallet EXCEPT !.isCheckingFreighter = FALSE] IN
    /\ mount = "restore"
    /\ key \in {None} \cup IF extension.installed THEN {extension.account} ELSE {}
    /\ mount' = "done"
    /\ IF sessionAction # "mount" THEN render(w) /\ UNCHANGED cache
       ELSE IF key # None /\ key = cache
       THEN /\ render([w EXCEPT !.publicKey = key, !.sessionInvalid = FALSE,
                                !.connectError = FALSE])
            /\ UNCHANGED cache
       ELSE /\ render([w EXCEPT !.publicKey = None,
                                !.connectError = @ \/ key # None])
            /\ cache' = None
    /\ UNCHANGED <<sessionAction, call, extension, left>>

-----------------------------------------------------------------------------
(* connect() and disconnect()                                              *)

connect(c) ==
    /\ call[c] = "idle"
    /\ sessionAction' = c
    /\ render([wallet EXCEPT !.isConnecting = TRUE, !.connectError = FALSE,
                             !.sessionInvalid = FALSE])
    /\ call' = [call EXCEPT ![c] = "detect"]
    /\ left' = FALSE
    /\ UNCHANGED <<cache, mount, extension>>

ended(c) == call' = [call EXCEPT ![c] = "idle"]

\* A call that another connect or disconnect has overtaken does nothing more.
overtaken(c) == sessionAction # c

\* A faulty version: without the extension the call just ends.
connect_detected_silent(c) ==
    LET w == [wallet EXCEPT !.freighterInstalled = extension.installed] IN
    /\ call[c] = "detect"
    /\ IF overtaken(c) THEN ended(c) /\ UNCHANGED <<wallet, form, attempt>>
       ELSE IF ~extension.installed
       THEN /\ render([w EXCEPT !.isConnecting = FALSE])
            /\ ended(c)
       ELSE render(w) /\ call' = [call EXCEPT ![c] = "access"]
    /\ UNCHANGED <<cache, sessionAction, mount, extension, left>>

connect_detected(c) ==
    LET w == [wallet EXCEPT !.freighterInstalled = extension.installed] IN
    /\ call[c] = "detect"
    /\ IF overtaken(c) THEN ended(c) /\ UNCHANGED <<wallet, form, attempt>>
       ELSE IF ~extension.installed
       THEN /\ render([w EXCEPT !.connectError = TRUE, !.isConnecting = FALSE])
            /\ ended(c)
       ELSE render(w) /\ call' = [call EXCEPT ![c] = "access"]
    /\ UNCHANGED <<cache, sessionAction, mount, extension, left>>

\* connectWallet: the user has granted access in the dialog of requestAccess.
access_granted(c) ==
    /\ call[c] = "access"
    /\ extension.installed
    /\ call' = [call EXCEPT ![c] = "address"]
    /\ UNCHANGED <<wallet, cache, sessionAction, mount, form, attempt, extension, left>>

\* A faulty version: the answer of an overtaken call is taken.
connect_address_late(c) ==
    /\ call[c] = "address"
    /\ extension.installed
    /\ render([wallet EXCEPT !.publicKey = extension.account, !.isConnecting = FALSE])
    /\ cache' = extension.account
    /\ ended(c)
    /\ UNCHANGED <<sessionAction, mount, extension, left>>

\* getAddress has returned the active account.
connect_address(c) ==
    /\ call[c] = "address"
    /\ extension.installed
    /\ IF overtaken(c) THEN UNCHANGED <<wallet, form, attempt, cache>>
       ELSE /\ render([wallet EXCEPT !.publicKey = extension.account,
                                     !.isConnecting = FALSE])
            /\ cache' = extension.account
    /\ ended(c)
    /\ UNCHANGED <<sessionAction, mount, extension, left>>

\* Access was denied, or the extension has failed: the cached key stays.
connect_error(c) ==
    /\ call[c] \in {"access", "address"}
    /\ IF overtaken(c) THEN UNCHANGED <<wallet, form, attempt>>
       ELSE render([wallet EXCEPT !.publicKey = None, !.connectError = TRUE,
                                  !.isConnecting = FALSE])
    /\ ended(c)
    /\ UNCHANGED <<cache, sessionAction, mount, extension, left>>

\* A faulty version: a connection under way keeps its spinner.
disconnect_connecting ==
    /\ sessionAction' = "disconnect"
    /\ render([wallet EXCEPT !.publicKey = None, !.connectError = FALSE,
                             !.sessionInvalid = FALSE])
    /\ cache' = None
    /\ left' = TRUE
    /\ UNCHANGED <<mount, call, extension>>

disconnect ==
    /\ sessionAction' = "disconnect"
    /\ render([wallet EXCEPT !.publicKey = None, !.connectError = FALSE,
                             !.sessionInvalid = FALSE, !.isConnecting = FALSE])
    /\ cache' = None
    /\ left' = TRUE
    /\ UNCHANGED <<mount, call, extension>>

-----------------------------------------------------------------------------
(* The form: handleSubmit opens the confirmation, confirmAndSubmit and     *)
(* handleRetry submit.                                                     *)

handleSubmit ==
    /\ wallet.publicKey # None
    /\ ~form.isSubmitting /\ ~form.isConfirming
    /\ form' = [form EXCEPT !.showConfirm = TRUE, !.txError = FALSE]
    /\ UNCHANGED <<wallet, wallet_vars, attempt, extension>>

\* The confirmation is dismissed.
onCancel ==
    /\ form.showConfirm
    /\ form' = [form EXCEPT !.showConfirm = FALSE]
    /\ UNCHANGED <<wallet, wallet_vars, attempt, extension>>

\* beginSubmitAttempt, up to the first await of buildSignAndSubmitSubscribe.
beginSubmitAttempt(a, f) ==
    /\ attempt[a].pc = "idle"
    /\ attempt' = [abort_active EXCEPT ![a] =
                     [pc |-> "getAccount", publicKey |-> wallet.publicKey,
                      aborted |-> FALSE]]
    /\ form' = [f EXCEPT !.activeSubmit = a, !.isSubmitting = TRUE, !.txError = FALSE]

confirmAndSubmit(a) ==
    /\ form.showConfirm
    /\ LET closed == [form EXCEPT !.showConfirm = FALSE] IN
       IF wallet.publicKey = None THEN form' = closed /\ UNCHANGED attempt
       ELSE beginSubmitAttempt(a, closed)
    /\ UNCHANGED <<wallet, wallet_vars, extension>>

handleRetry(a) ==
    /\ form.txError
    /\ wallet.publicKey # None
    /\ beginSubmitAttempt(a, form)
    /\ UNCHANGED <<wallet, wallet_vars, extension>>

isCurrentSubmitAttempt(a) == form.activeSubmit = a /\ ~attempt[a].aborted

\* buildSignAndSubmitSubscribe throws, or returns ("sent"): the handler.
submit_ends(a, sent) ==
    /\ attempt' = [attempt EXCEPT ![a] = NoAttempt]
    /\ form' = IF ~isCurrentSubmitAttempt(a) THEN form
               ELSE [form EXCEPT !.activeSubmit = None, !.isSubmitting = FALSE,
                                 !.isConfirming = sent, !.txError = ~sent]
    /\ UNCHANGED <<wallet, wallet_vars, extension>>

next_pc(pc) ==
    CASE pc = "getAccount" -> "prepare"
      [] pc = "prepare"    -> "sign"
      [] pc = "sign"       -> "send"

\* A faulty version: only the first steps look at the signal.
submit_step_unchecked(a) ==
    /\ attempt[a].pc \in {"getAccount", "prepare", "sign"}
    /\ attempt[a].pc = "sign" \/ ~attempt[a].aborted
    /\ attempt' = [attempt EXCEPT ![a].pc = next_pc(@)]
    /\ UNCHANGED <<wallet, wallet_vars, form, extension>>

\* getAccount, prepareTransaction or signTx has returned; throwIfAborted, and
\* the next request goes out.  signTx is called without the account it could
\* compare with the active one, so another account's signature is left to the
\* network to refuse.
submit_step(a) ==
    /\ attempt[a].pc \in {"getAccount", "prepare", "sign"}
    /\ ~attempt[a].aborted
    /\ attempt' = [attempt EXCEPT ![a].pc = next_pc(@)]
    /\ UNCHANGED <<wallet, wallet_vars, form, extension>>

\* sendTransaction has been accepted.
submit_sent(a) ==
    /\ attempt[a].pc = "send"
    /\ ~attempt[a].aborted
    /\ submit_ends(a, TRUE)

\* A request has failed, the user has refused to sign, or the signal is set.
submit_error(a) ==
    /\ attempt[a].pc # "idle"
    /\ submit_ends(a, FALSE)

\* useTransactionPoller reports success or failure.
confirmed(failed) ==
    /\ form.isConfirming
    /\ form' = [form EXCEPT !.isConfirming = FALSE, !.txError = failed]
    /\ UNCHANGED <<wallet, wallet_vars, attempt, extension>>

\* The form is left, and opened again later.
unmount ==
    /\ attempt' = abort_active
    /\ form' = NewForm
    /\ UNCHANGED <<wallet, wallet_vars, extension>>

-----------------------------------------------------------------------------
(* The environment: the extension, and the page being loaded again.        *)

switch(installed, account) ==
    /\ extension' = [installed |-> installed, account |-> account]
    /\ UNCHANGED <<wallet, wallet_vars, form, attempt>>

reload ==
    /\ wallet' = NewWallet
    /\ sessionAction' = "mount"
    /\ mount' = "detect"
    /\ call' = [c \in Calls |-> "idle"]
    /\ form' = NewForm
    /\ attempt' = [a \in Attempts |-> NoAttempt]
    /\ UNCHANGED <<cache, extension, left>>

Next ==
    \/ mount_detected \/ \E key \in Accounts \cup {None} : mount_restored(key)
    \/ \E c \in Calls : \/ connect(c) \/ connect_detected(c) \/ access_granted(c)
                        \/ connect_address(c) \/ connect_error(c)
    \/ disconnect
    \/ handleSubmit \/ onCancel
    \/ \E a \in Attempts : \/ confirmAndSubmit(a) \/ handleRetry(a)
                           \/ submit_step(a) \/ submit_sent(a) \/ submit_error(a)
    \/ \E failed \in BOOLEAN : confirmed(failed)
    \/ unmount
    \/ \E installed \in BOOLEAN, account \in Accounts : switch(installed, account)
    \/ reload

Spec == Init /\ [][Next]_vars

-----------------------------------------------------------------------------
(* Properties.                                                             *)

\* A user who has disconnected stays so until the next connect(): neither an
\* answer of the extension to an earlier call nor the restoration of a cached
\* session, also after a reload, brings the key back.
DisconnectSticks == left => wallet.publicKey = None /\ cache = None

\* No spinner turns for ever: while the page shows that it connects or
\* submits, the call that will end it is still under way, although others
\* may have been overtaken or aborted (the form is disabled meanwhile).
SpinnersHaveWork ==
    /\ wallet.isConnecting =>
          sessionAction \in Calls /\ call[sessionAction] # "idle"
    /\ form.isSubmitting =>
          /\ form.activeSubmit # None
          /\ attempt[form.activeSubmit].pc # "idle"
          /\ ~attempt[form.activeSubmit].aborted

\* At most one submission is alive, the latest, and it is for the wallet the
\* page is connected to: all those of an earlier wallet, an earlier attempt or
\* a form that was left are aborted.
LiveSubmissionIsCurrent ==
    \A a \in Attempts :
        attempt[a].pc # "idle" /\ ~attempt[a].aborted =>
            /\ form.activeSubmit = a
            /\ attempt[a].publicKey = wallet.publicKey
            /\ wallet.publicKey # None

\* A transaction goes out only for the wallet that the page is connected to at
\* that moment, and only that of the latest submission, whatever the user did
\* while the account, the simulation and the signature were waited for.
SendsForTheSession ==
    [][\A a \in Attempts :
         attempt[a].pc # "send" /\ attempt'[a].pc = "send" =>
            /\ attempt[a].publicKey = wallet.publicKey
            /\ form.activeSubmit = a]_vars

\* After a connect() that ended without a key the page shows an error until
\* the user acts again: neither the answer to a call it has overtaken nor the
\* restoration of a session on mount clears it.  (The page shows connectError
\* exactly while there is no key, app/page.tsx:127-154.)
FailedConnectIsShown ==
    sessionAction \in Calls /\ call[sessionAction] = "idle" /\ wallet.publicKey = None
        => wallet.connectError
=============================================================================
