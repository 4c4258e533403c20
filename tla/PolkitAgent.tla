---------------------------- MODULE PolkitAgent ----------------------------
(***************************************************************************)
(* sy polkit: the session's authentication agent.                          *)
(*                                                                         *)
(* The authority's BeginAuthentication runs as a task that starts the PAM  *)
(* helper and multiplexes its lines and the dialog's controls; the dialog, *)
(* on the user interface's thread, takes the task's events on a tick and   *)
(* sends responses and cancels back.  At most one request is active.       *)
(*                                                                         *)
(* A prompt is its number among those of its helper; a response is the     *)
(* request and the number it was typed for.  Texts and results beyond      *)
(* success or not are left out.  The helper, the user, the authority and   *)
(* time are the environment.                                               *)
(***************************************************************************)
EXTENDS Integers, Sequences

CONSTANTS
    Cookies,      \* requests of the authority
    MaxPrompts,   \* bound: prompts of one helper
    MaxEvents,    \* bound: a helper prints while fewer events wait for a tick
    NoCookie

ASSUME NoCookieIsNew == NoCookie \notin Cookies /\ MaxPrompts \in Nat

VARIABLES
    begin,        \* where BeginAuthentication stands
    active,       \* cookies in the agent's table
    controls,     \* controls sent to a request and not yet taken
    awaiting,     \* whether the task passes a response on
    helper,       \* the helper process
    asked,        \* prompts the helper has printed
    stdout,       \* lines of the helper that the task has not read
    answered,     \* what the helper was given for its prompts, in order
    dialogEvents, \* events sent to the dialog
    dialog        \* cookie, prompt, whether it has the control, the window

taskVars   == <<begin, active, awaiting>>
helperVars == <<helper, asked, stdout, answered>>
polkitVars == <<taskVars, controls, helperVars, dialogEvents, dialog>>

NoPrompt    == 0
Prompts     == 1 .. MaxPrompts
Prompt(k)   == <<"Prompt", k>>
Info        == <<"Info", NoPrompt>>
Complete    == <<"Complete", NoPrompt>>
Garbled     == <<"Garbled", NoPrompt>>
Lines       == {Prompt(k) : k \in Prompts} \union {Info, Complete, Garbled}
Cancelled   == <<"Cancel", NoPrompt>>
Responses   == {"Response"} \X (Cookies \X Prompts)
DialogEvent == {"Started", "Pam", "Done", "Failed"} \X Cookies \X (0 .. MaxPrompts)

PolkitTypeOK ==
    /\ begin \in [Cookies -> {"no", "lookup", "running", "ok", "failed", "reap ok",
                              "reap failed"}]
    /\ active \subseteq Cookies
    /\ controls \in [Cookies -> Seq(Responses \union {Cancelled})]
    /\ awaiting \in [Cookies -> BOOLEAN]
    /\ helper \in [Cookies -> {"none", "alive", "dead"}]
    /\ asked \in [Cookies -> 0 .. MaxPrompts]
    /\ stdout \in [Cookies -> Seq(Lines)]
    /\ answered \in [Cookies -> Seq(Cookies \X Prompts)]
    /\ dialogEvents \in Seq(DialogEvent)
    /\ dialog \in [cookie: Cookies \union {NoCookie}, prompt: 0 .. MaxPrompts,
                   control: BOOLEAN, window: BOOLEAN]

PolkitInit ==
    /\ begin = [c \in Cookies |-> "no"] /\ active = {}
    /\ controls = [c \in Cookies |-> <<>>] /\ awaiting = [c \in Cookies |-> FALSE]
    /\ helper = [c \in Cookies |-> "none"] /\ asked = [c \in Cookies |-> 0]
    /\ stdout = [c \in Cookies |-> <<>>] /\ answered = [c \in Cookies |-> <<>>]
    /\ dialogEvents = <<>>
    /\ dialog = [cookie |-> NoCookie, prompt |-> NoPrompt, control |-> FALSE, window |-> FALSE]

-----------------------------------------------------------------------------
(* The task of a request. *)

At(c, stage) == begin' = [begin EXCEPT ![c] = stage]
Tell(kind, c, k) == dialogEvents' = Append(dialogEvents, <<kind, c, k>>)

(* The authority calls; the account is looked up. *)
BeginAuthentication(c) ==
    /\ begin[c] = "no"
    /\ At(c, "lookup")
    /\ UNCHANGED <<active, awaiting, controls, helperVars, dialogEvents, dialog>>

LookupFails(c) ==
    /\ begin[c] = "lookup"
    /\ At(c, "failed")
    /\ UNCHANGED <<active, awaiting, controls, helperVars, dialogEvents, dialog>>

Refuse(c) ==
    /\ begin[c] = "lookup" /\ active # {}
    /\ At(c, "failed")
    /\ UNCHANGED <<active, awaiting, controls, helperVars, dialogEvents, dialog>>

(* The request becomes active, the dialog is told, the helper is started.  *)
Authenticate(c) ==
    /\ begin[c] = "lookup" /\ active = {}
    /\ active' = {c}
    /\ Tell("Started", c, NoPrompt)
    /\ \/ At(c, "running") /\ helper' = [helper EXCEPT ![c] = "alive"]
       \/ At(c, "reap failed") /\ UNCHANGED helper
    /\ UNCHANGED <<awaiting, controls, asked, stdout, answered, dialog>>

(* A control of the dialog or of the authority.  A response may hold what  *)
(* a line cannot, or find the helper gone.                                 *)
TakeControl(c) ==
    /\ begin[c] = "running" /\ controls[c] # <<>>
    /\ controls' = [controls EXCEPT ![c] = Tail(@)]
    /\ \/ /\ Head(controls[c]) = Cancelled
          /\ At(c, "reap failed") /\ UNCHANGED <<awaiting, answered>>
       \/ /\ Head(controls[c]) # Cancelled /\ ~awaiting[c]
          /\ UNCHANGED <<begin, awaiting, answered>>
       \/ /\ Head(controls[c]) # Cancelled /\ awaiting[c] /\ helper[c] = "alive"
          /\ answered' = [answered EXCEPT ![c] = Append(@, Head(controls[c])[2])]
          /\ awaiting' = [awaiting EXCEPT ![c] = FALSE]
          /\ UNCHANGED begin
       \/ /\ Head(controls[c]) # Cancelled /\ awaiting[c]
          /\ At(c, "reap failed") /\ UNCHANGED <<awaiting, answered>>
    /\ UNCHANGED <<active, helper, asked, stdout, dialogEvents, dialog>>

(* A line of the helper; SUCCESS and FAILURE end the request. *)
ReadLine(c) ==
    /\ begin[c] = "running" /\ stdout[c] # <<>>
    /\ stdout' = [stdout EXCEPT ![c] = Tail(@)]
    /\ \/ /\ Head(stdout[c]) = Complete
          /\ \E outcome \in {"reap ok", "reap failed"} : At(c, outcome)
          /\ UNCHANGED <<awaiting, dialogEvents>>
       \/ /\ Head(stdout[c]) = Garbled
          /\ At(c, "reap failed") /\ UNCHANGED <<awaiting, dialogEvents>>
       \/ /\ Head(stdout[c]) \notin {Complete, Garbled}
          /\ awaiting' = [awaiting EXCEPT ![c] = @ \/ Head(stdout[c])[1] = "Prompt"]
          /\ Tell("Pam", c, Head(stdout[c])[2])
          /\ UNCHANGED begin
    /\ UNCHANGED <<active, controls, helper, asked, answered, dialog>>

(* The helper closed its output, or two minutes have passed. *)
GiveUp(c) ==
    /\ begin[c] = "running"
    /\ At(c, "reap failed")
    /\ UNCHANGED <<active, awaiting, controls, helperVars, dialogEvents, dialog>>

(* The helper is killed and waited for, the dialog told, the guard dropped. *)
Reap(c) ==
    /\ begin[c] \in {"reap ok", "reap failed"}
    /\ helper' = [helper EXCEPT ![c] = "none"]
    /\ At(c, IF begin[c] = "reap ok" THEN "ok" ELSE "failed")
    /\ Tell(IF begin[c] = "reap ok" THEN "Done" ELSE "Failed", c, NoPrompt)
    /\ active' = active \ {c}
    /\ controls' = [controls EXCEPT ![c] = <<>>]
    /\ UNCHANGED <<awaiting, asked, stdout, answered, dialog>>

(* CancelAuthentication: a request that is not in the table is not found.  *)
CancelAuthentication(c) ==
    /\ c \in active /\ \A i \in 1 .. Len(controls[c]) : controls[c][i] # Cancelled
    /\ controls' = [controls EXCEPT ![c] = Append(@, Cancelled)]
    /\ UNCHANGED <<taskVars, helperVars, dialogEvents, dialog>>

-----------------------------------------------------------------------------
(* The helper asks one thing at a time: its next line follows the answer.  *)

Unanswered(c) == asked[c] # Len(answered[c])

HelperPrints(c) ==
    /\ helper[c] = "alive" /\ stdout[c] = <<>> /\ ~Unanswered(c)
    /\ Len(dialogEvents) < MaxEvents
    /\ \/ /\ asked[c] < MaxPrompts
          /\ asked' = [asked EXCEPT ![c] = @ + 1]
          /\ stdout' = [stdout EXCEPT ![c] = <<Prompt(asked[c] + 1)>>]
       \/ \E line \in {Info, Complete, Garbled} :
            stdout' = [stdout EXCEPT ![c] = <<line>>] /\ UNCHANGED asked
    /\ UNCHANGED <<taskVars, controls, helper, answered, dialogEvents, dialog>>

HelperDies(c) ==
    /\ helper[c] = "alive"
    /\ helper' = [helper EXCEPT ![c] = "dead"]
    /\ UNCHANGED <<taskVars, controls, asked, stdout, answered, dialogEvents, dialog>>

-----------------------------------------------------------------------------
(* The dialog. *)

Show(d, event) ==
    LET kind == event[1]
        c == event[2]
        k == event[3]
    IN  CASE kind = "Started" ->
                [cookie |-> c, prompt |-> NoPrompt, control |-> TRUE, window |-> TRUE]
          [] kind = "Pam" /\ c = d.cookie /\ k # NoPrompt -> [d EXCEPT !.prompt = k]
          [] kind = "Done" /\ c = d.cookie ->
                [d EXCEPT !.prompt = NoPrompt, !.control = FALSE, !.window = FALSE]
          [] kind = "Failed" /\ c = d.cookie ->
                [d EXCEPT !.prompt = NoPrompt, !.control = FALSE]
          [] OTHER -> d

(* The dialog after n of the events. *)
Shown[n \in 0 .. Len(dialogEvents)] ==
    IF n = 0 THEN dialog ELSE Show(Shown[n - 1], dialogEvents[n])

(* A tick takes every event that is there. *)
Tick ==
    /\ dialogEvents # <<>>
    /\ dialog' = Shown[Len(dialogEvents)]
    /\ dialogEvents' = <<>>
    /\ UNCHANGED <<taskVars, controls, helperVars>>

(* A control reaches a request whose task still listens. *)
SendControl(c, control) ==
    controls' = IF begin[c] = "running" THEN [controls EXCEPT ![c] = Append(@, control)]
                ELSE controls

(* Mutant: the prompt stays after its response, for a second one. *)
SubmitAgain ==
    /\ dialog.window /\ dialog.prompt # NoPrompt /\ dialog.control
    /\ Len(controls[dialog.cookie]) < 2
    /\ SendControl(dialog.cookie, <<"Response", <<dialog.cookie, dialog.prompt>>>>)
    /\ UNCHANGED <<taskVars, helperVars, dialogEvents, dialog>>

Submit ==
    /\ dialog.window /\ dialog.prompt # NoPrompt /\ dialog.control
    /\ SendControl(dialog.cookie, <<"Response", <<dialog.cookie, dialog.prompt>>>>)
    /\ dialog' = [dialog EXCEPT !.prompt = NoPrompt]
    /\ UNCHANGED <<taskVars, helperVars, dialogEvents>>

(* The button or the window's close request. *)
CancelDialog ==
    /\ dialog.window
    /\ IF dialog.control THEN SendControl(dialog.cookie, Cancelled) ELSE UNCHANGED controls
    /\ dialog' = [dialog EXCEPT !.control = FALSE, !.window = FALSE]
    /\ UNCHANGED <<taskVars, helperVars, dialogEvents>>

PolkitNext ==
    \/ \E c \in Cookies :
        \/ BeginAuthentication(c) \/ LookupFails(c) \/ Refuse(c) \/ Authenticate(c)
        \/ TakeControl(c) \/ ReadLine(c) \/ GiveUp(c) \/ Reap(c) \/ CancelAuthentication(c)
        \/ HelperPrints(c) \/ HelperDies(c)
    \/ Tick \/ Submit \/ CancelDialog

PolkitSpec == PolkitInit /\ [][PolkitNext]_polkitVars

-----------------------------------------------------------------------------
(* Properties. *)

(* What a helper is given for its prompt was typed while the dialog showed *)
(* that prompt: no response reaches another request's helper or a later    *)
(* prompt, however ticks, submissions, lines and cancels fall.             *)
AnswerReachesItsPrompt ==
    \A c \in Cookies : answered[c] = [i \in 1 .. Len(answered[c]) |-> <<c, i>>]
=============================================================================
