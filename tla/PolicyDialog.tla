---------------------------- MODULE PolicyDialog ----------------------------
(***************************************************************************)
(* The policy dialog (crates/app/src/gui/dialogs/policy.rs) in front of    *)
(* the requests of module Policy.  The dialog's calls are synchronous: the *)
(* main loop waits for the answer and no widget reacts meanwhile.  Other   *)
(* clients use the same requests: the command line, and the dialog of a    *)
(* second window, which starting the program again opens (gui/mod.rs:56).  *)
(***************************************************************************)
EXTENDS Policy

CONSTANTS Gui,       \* the client that is the dialog's process
          Default,   \* the form of a subvolume without a policy
          Given      \* the policies that other clients save

ASSUME GuiAssumption == Gui \in Clients
ASSUME GivenAssumption == Given \subseteq Policy
ASSUME DefaultAssumption == Default \in Saved

VARIABLES
    window,     \* the subvolume of the open dialog, or "closed"
    id,         \* the policy id the dialog saves under
    form,       \* the values of the widgets
    valid,      \* preview_valid; Save and Run are sensitive
    wants,      \* the button whose request is under way
    previewed,  \* history: what was previewed since the last edit
    missed      \* history: subvolumes of which the dialog missed a policy: the list could
                \* not be loaded, or another client saved one after the dialog had opened,
                \* or one next to another

dialog == <<window, id, form, valid, wants, previewed>>
dvars == <<vars, dialog, missed>>

Closed == "closed"
ASSUME ClosedAssumption == Closed \notin Subvols

DialogTypeOK ==
    /\ TypeOK
    /\ window \in Subvols \cup {Closed} /\ id \in Policies /\ form \in Policy
    /\ valid \in BOOLEAN /\ wants \in {"nothing", "save", "run"}
    /\ previewed \in Policy \cup {NoPolicy} /\ missed \subseteq Subvols

DialogInit ==
    /\ Init
    /\ window = Closed /\ id = NoJob.id /\ form = Default
    /\ valid = FALSE /\ wants = "nothing" /\ previewed = NoPolicy /\ missed = {}

Ready == window # Closed /\ pc[Gui] = "idle"

\* An id no policy ever left anything of, as a fresh uuid is.
Fresh(p) ==
    /\ rows[p] = NoPolicy /\ service[p] = NoFile /\ timer[p] = NoFile
    /\ p \notin linked /\ p \notin started

\* The policies of a subvolume.
Of(s) == {p \in Policies : rows[p] # NoPolicy /\ rows[p].subvol = s}

\* Mutant: only enabled policies are found.
FoundEnabled(s) == {p \in Of(s) : rows[p].enabled}

\* load_policy_for_subvolume.
Found(s) == Of(s)

\* The dialog opens on the policy found, or on a fresh one; a list that fails counts as an empty one.
Open(s) ==
    LET New == id' \in {p \in Policies : Fresh(p)} /\ form' = [Default EXCEPT !.subvol = s]
    IN  /\ window = Closed /\ pc[Gui] = "idle"
        /\ \/ /\ id' \in Found(s) /\ form' = rows[id']
              /\ UNCHANGED <<missed, counters>>
           \/ Found(s) = {} /\ New /\ UNCHANGED <<missed, counters>>
           \/ ListFails /\ missed' = missed \cup {s} /\ New
        /\ window' = s /\ valid' = FALSE /\ previewed' = NoPolicy
        /\ UNCHANGED <<rows, units, pc, job, wants>>

Gone ==
    /\ window' = Closed /\ id' = NoJob.id /\ form' = Default
    /\ valid' = FALSE /\ previewed' = NoPolicy

Close ==
    /\ Ready /\ Gone
    /\ UNCHANGED <<vars, wants, missed>>

\* Mutant: the switch of the form is not watched.
EditUnwatched ==
    /\ Ready
    /\ \/ /\ \E x \in Schedules \ {form.schedule} : form' = [form EXCEPT !.schedule = x]
          /\ valid' = FALSE
       \/ form' = [form EXCEPT !.enabled = ~form.enabled] /\ UNCHANGED valid
    /\ previewed' = NoPolicy
    /\ UNCHANGED <<vars, window, id, wants, missed>>

\* connect_policy_invalidation: every widget's change signal.
Edit ==
    /\ Ready
    /\ \/ \E x \in Schedules \ {form.schedule} : form' = [form EXCEPT !.schedule = x]
       \/ \E x \in Plans \ {form.plan} : form' = [form EXCEPT !.plan = x]
       \/ form' = [form EXCEPT !.enabled = ~form.enabled]
    /\ valid' = FALSE /\ previewed' = NoPolicy
    /\ UNCHANGED <<vars, window, id, wants, missed>>

\* PreviewRetentionForPolicy validates and changes nothing; a refused or failed one
\* leaves the buttons alone.
Preview ==
    /\ Ready /\ form \in Saved
    /\ valid' = TRUE /\ previewed' = form
    /\ UNCHANGED <<vars, window, id, form, wants, missed>>

\* Save and Run Now both start with an upsert of the form.
Press(button) ==
    /\ Ready /\ valid
    /\ Upsert(Gui, id, form) /\ wants' = button
    /\ UNCHANGED <<window, id, form, valid, previewed, missed>>

\* The answer is shown; Run Now starts the run when the policy was saved.
Shown ==
    /\ Answered(Gui) /\ wants' = "nothing"
    /\ UNCHANGED <<window, id, form, valid, previewed, missed>>

DialogReboot ==
    /\ Reboot /\ Gone /\ wants' = "nothing" /\ UNCHANGED missed

Dialog ==
    \/ Close \/ Edit \/ Preview \/ Shown
    \/ \E s \in Subvols : Open(s)
    \/ \E button \in {"save", "run"} : Alone(Gui) /\ Press(button)

\* A step of a request, which may make a policy one of a subvolume where there is one,
\* or on which the dialog is open.
Proceed(c) ==
    /\ Step(c)
    /\ missed' = IF c = Gui THEN missed
                  ELSE missed \cup {s \in Subvols : \E p \in Of(s)' \ Of(s) :
                                        s = window \/ \E q \in Of(s)' : q # p}
    /\ UNCHANGED dialog

\* What the helper and the other clients do; a request starts when no other runs.
\* Another client enables and disables, and saves a policy under any id.
ElsewhereAsked(c) ==
    /\ Alone(c)
    /\ \E p \in Policies : \/ \E on \in BOOLEAN : SetEnabled(c, p, on)
                          \/ \E policy \in Given : Upsert(c, p, policy)
Elsewhere ==
    \/ \E c \in Clients : Proceed(c)
    \/ /\ \/ \E c \in Clients : Crash(c)
          \/ \E c \in Clients \ {Gui} : Answered(c) \/ ElsewhereAsked(c)
       /\ UNCHANGED <<dialog, missed>>

DialogNext == Dialog \/ Elsewhere \/ DialogReboot

\* A request runs to its answer; the main loop shows it.  The helper's threads
\* and the waiting main loop run unless they are killed; no user has to act.
DialogSpec ==
    /\ DialogInit /\ [][DialogNext]_dvars
    /\ \A c \in Clients : WF_dvars(Proceed(c))
    /\ WF_dvars(Shown)

-----------------------------------------------------------------------------

\* The dialog saves and runs only what was previewed since the last edit: every
\* edit of the form invalidates the preview (dialogs/policy.rs:193-194).
SavedWasPreviewed ==
    [][pc[Gui] = "idle" /\ pc'[Gui] = "row" => job'[Gui].new = previewed]_dvars

\* The dialog never makes a second policy for a subvolume (dialogs/policy.rs:347-356),
\* whatever fails, where it has not missed one: policies have no key but their id.
OnePerSubvolume == \A s \in Subvols \ missed : \A p, q \in Of(s) : p = q

\* The dialog comes back from every request, also from one whose recovery fails.
DialogAnswers == wants # "nothing" ~> wants = "nothing"

=============================================================================
