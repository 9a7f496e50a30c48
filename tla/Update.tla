-------------------------------- MODULE Update --------------------------------
(***************************************************************************)
(* The update of the program (crates/app/src/gui/update_check.rs,          *)
(* update_apply.rs, crates/helper/src/selfupdate.rs): every window looks   *)
(* for a newer release when it is built and offers it; its button          *)
(* downloads the package and its checksums, compares, stores the package   *)
(* and asks the helper, which hashes the file again and installs it.  A    *)
(* second start opens a window in the program that runs (mod.rs:49-56).    *)
(* A release has its assets one after the other, any download may be       *)
(* damaged, and others install packages and touch the stored file.         *)
(***************************************************************************)
EXTENDS Naturals

CONSTANTS
    Windows,      \* of the program
    LastRelease,  \* releases 1..LastRelease are published in this order; 0 is the first build
    MaxFaults     \* bound: what Fault counts

VARIABLES
    assets,       \* release -> how many of its two assets are there
    installed,    \* what pacman installed: release and damage
    running,      \* the release the program was built from
    pending,      \* window -> PendingUpdate: a release, or None
    offered,      \* the windows whose banner is revealed
    task,         \* window -> the step of its check or of its button, the release
    got,          \* window -> the package downloaded, then the data expected of the file; the checksums
    saved,        \* package name -> the file in the runtime directory
    dead,         \* windows of a program that ended while the helper works for them
    others,       \* history: who else came in between
    faults

vars == <<assets, installed, running, pending, offered, task, got, saved, dead, others, faults>>
banners == <<pending, offered>>
program == <<running, dead, others>>

Releases == 1..LastRelease
None == 0
Data == [of : 0..LastRelease, good : BOOLEAN]
First == [of |-> 0, good |-> TRUE]
NoTask == [step |-> "down", release |-> None]
Nothing == [file |-> First, checksums |-> FALSE]

TypeOK ==
    /\ assets \in [Releases -> 0..2] /\ installed \in Data /\ running \in 0..LastRelease
    /\ pending \in [Windows -> 0..LastRelease] /\ offered \subseteq Windows
    /\ task \in [Windows -> [step : {"down", "check", "idle", "download", "compare", "save", "hash",
                                     "request", "verified", "installed"},
                             release : 0..LastRelease]]
    /\ got \in [Windows -> [file : Data, checksums : BOOLEAN]]
    /\ saved \in [Releases -> Data] /\ dead \subseteq Windows
    /\ others \subseteq {"window", "late", "upgrade", "file"} /\ faults \in 0..MaxFaults

Init ==
    /\ assets = [r \in Releases |-> 0] /\ installed = First /\ running = 0
    /\ pending = [w \in Windows |-> None] /\ offered = {} /\ task = [w \in Windows |-> NoTask]
    /\ got = [w \in Windows |-> Nothing] /\ saved = [r \in Releases |-> First]
    /\ dead = {} /\ others = {} /\ faults = 0

\* Failing requests, damaged downloads and killed programs count, and whatever comes
\* in between.
Fault == faults < MaxFaults /\ faults' = faults + 1
Other(o) == Fault /\ others' = others \cup {o}

Up == {w \in Windows : task[w].step # "down"} \ dead
At(w, s) == task[w].step = s
Step(w, s) == task' = [task EXCEPT ![w].step = s]

\* The workflow publishes.
Publish(r) ==
    /\ assets[r] < 2 /\ (r > 1 => assets[r - 1] = 2)
    /\ assets' = [assets EXCEPT ![r] = @ + 1]
    /\ UNCHANGED <<installed, banners, task, got, saved, program, faults>>

\* pacman, or pkg-install.sh, installs what it is given.
Upgrade(r) ==
    /\ r # installed.of /\ installed' = [of |-> r, good |-> TRUE] /\ Other("upgrade")
    /\ UNCHANGED <<assets, running, banners, task, got, saved, dead>>

\* The stored file is changed by something else.
Overwrite(r, d) ==
    /\ saved[r] # d /\ saved' = [saved EXCEPT ![r] = d] /\ Other("file")
    /\ UNCHANGED <<assets, installed, running, banners, task, got, dead>>

-----------------------------------------------------------------------------
(* The check of a window: build_ui, in a new program or in the one that runs *)

Launch(w) ==
    /\ At(w, "down") /\ Step(w, "check")
    /\ IF Up = {} THEN running' = installed.of /\ UNCHANGED <<others, faults>>
                  ELSE Other("window") /\ UNCHANGED running
    /\ UNCHANGED <<assets, installed, banners, got, saved, dead>>

Latest == IF \E r \in Releases : assets[r] > 0
          THEN CHOOSE r \in Releases : assets[r] > 0 /\ \A o \in Releases : o > r => assets[o] = 0
          ELSE None

\* fetch_release_and_status, with the revision compiled in: every failure, a build
\* that is not behind and a release without its two assets mean no banner.
Check(w) ==
    /\ At(w, "check") /\ Step(w, "idle")
    /\ \/ /\ Latest > running /\ assets[Latest] = 2
          /\ pending' = [pending EXCEPT ![w] = Latest] /\ offered' = offered \cup {w} /\ UNCHANGED faults
       \/ ~(Latest > running /\ assets[Latest] = 2) /\ UNCHANGED <<banners, faults>>
       \/ Fault /\ UNCHANGED banners
    /\ UNCHANGED <<assets, installed, got, saved, program>>

Dismiss(w) ==
    /\ w \in Up \cap offered /\ offered' = offered \ {w}
    /\ UNCHANGED <<assets, installed, pending, task, got, saved, program, faults>>

-----------------------------------------------------------------------------
(* The button, insensitive while its task runs: the offer is taken, for good *)

Press(w) ==
    /\ At(w, "idle") /\ w \in offered /\ pending[w] # None
    /\ task' = [task EXCEPT ![w] = [step |-> "download", release |-> pending[w]]]
    /\ pending' = [pending EXCEPT ![w] = None]
    /\ UNCHANGED <<assets, installed, offered, got, saved, program, faults>>

\* A toast says why, and the button is sensitive again; nobody is told of a request
\* whose program has ended.
Fail(w) ==
    /\ task' = [task EXCEPT ![w] = [step |-> IF w \in dead THEN "down" ELSE "idle", release |-> None]]
    /\ got' = [got EXCEPT ![w] = Nothing] /\ dead' = dead \ {w}

Damage == IF faults < MaxFaults THEN BOOLEAN ELSE {TRUE}

\* The package, then the checksums.
Download(w) ==
    /\ At(w, "download")
    /\ \/ \E good \in Damage, checksums \in Damage :
             /\ got' = [got EXCEPT ![w] = [file |-> [of |-> task[w].release, good |-> good],
                                           checksums |-> checksums]]
             /\ IF good /\ checksums THEN UNCHANGED faults ELSE Fault
             /\ Step(w, "compare") /\ UNCHANGED dead
       \/ Fault /\ Fail(w)
    /\ UNCHANGED <<assets, installed, running, banners, saved, others>>

\* Mutant: an entry of the checksums is enough.
Listed(w) == got[w].checksums

\* find_checksum and the hash of the bytes.
Matches(w) == got[w].checksums /\ got[w].file.good

Torn(w) == [of |-> task[w].release, good |-> FALSE]

\* The comparison, and fs::write, which empties the file first.
CompareAndSave(w) ==
    /\ At(w, "compare")
    /\ \/ /\ Matches(w) /\ saved' = [saved EXCEPT ![task[w].release] = Torn(w)]
          /\ Step(w, "save") /\ UNCHANGED <<got, dead, faults>>
       \/ ~Matches(w) /\ Fail(w) /\ UNCHANGED <<saved, faults>>
       \/ Fault /\ Fail(w) /\ UNCHANGED saved
    /\ UNCHANGED <<assets, installed, running, banners, others>>

\* Its end: the bytes are there, unless another window has emptied the file again.
Save(w) ==
    /\ At(w, "save")
    /\ \/ /\ \/ saved' = [saved EXCEPT ![task[w].release] = got[w].file]
             \/ /\ \E o \in Windows \ {w} : At(o, "save") /\ task[o].release = task[w].release
                /\ UNCHANGED saved
          /\ got' = [got EXCEPT ![w] = Nothing] /\ Step(w, "hash") /\ UNCHANGED <<dead, faults>>
       \/ Fault /\ Fail(w) /\ UNCHANGED saved
    /\ UNCHANGED <<assets, installed, running, banners, others>>

\* The expected hash is the one of the file, read again.
HashFile(w) ==
    /\ At(w, "hash")
    /\ \/ /\ got' = [got EXCEPT ![w].file = saved[task[w].release]]
          /\ Step(w, "request") /\ UNCHANGED <<dead, faults>>
       \/ Fault /\ Fail(w)
    /\ UNCHANGED <<assets, installed, running, banners, saved, others>>

-----------------------------------------------------------------------------
(* apply_self_update_impl, which goes on when the program ends *)

\* The path and the hash.
Verify(w) ==
    /\ At(w, "request")
    /\ \/ saved[task[w].release] = got[w].file /\ Step(w, "verified") /\ UNCHANGED <<got, dead, faults>>
       \/ saved[task[w].release] # got[w].file /\ Fail(w) /\ UNCHANGED faults
       \/ Fault /\ Fail(w)
    /\ UNCHANGED <<assets, installed, running, banners, saved, others>>

\* pacman -U reads the file once more; a second pacman is refused.
Install(w) ==
    /\ At(w, "verified")
    /\ \/ /\ installed' = saved[task[w].release]
          /\ IF w \in dead THEN Fail(w) ELSE Step(w, "installed") /\ UNCHANGED <<got, dead>>
          /\ UNCHANGED faults
       \/ (\E o \in Windows \ {w} : At(o, "verified")) /\ Fail(w) /\ UNCHANGED <<installed, faults>>
       \/ Fault /\ Fail(w) /\ UNCHANGED installed
    /\ UNCHANGED <<assets, running, banners, saved, others>>

-----------------------------------------------------------------------------
(* The end of the program *)

AtHelper == {w \in Windows : task[w].step \in {"request", "verified"}}

\* Every window is gone, the helper keeps its requests; with N windows built anew.
Ends(N) ==
    /\ task' = [w \in Windows |-> IF w \in N THEN [NoTask EXCEPT !.step = "check"]
                                  ELSE IF w \in AtHelper THEN task[w] ELSE NoTask]
    /\ got' = [w \in Windows |-> IF w \in AtHelper THEN got[w] ELSE Nothing]
    /\ dead' = AtHelper /\ others' = others \cup (IF AtHelper = {} THEN {} ELSE {"late"})
    /\ pending' = [w \in Windows |-> None] /\ offered' = {}

\* offer_restart: later, or exec, which fails and panics when the path of the program
\* is no longer the one it started from.
Answer(w) ==
    /\ At(w, "installed")
    /\ \/ Fail(w) /\ UNCHANGED <<running, banners, others>>
       \/ Ends({w}) /\ running' = installed.of
       \/ Ends({}) /\ UNCHANGED running
    /\ UNCHANGED <<assets, installed, saved, faults>>

\* A window without a task is closed; with one it goes on until the task has ended.
Close(w) ==
    /\ At(w, "idle") /\ task' = [task EXCEPT ![w] = NoTask]
    /\ pending' = [pending EXCEPT ![w] = None] /\ offered' = offered \ {w}
    /\ UNCHANGED <<assets, installed, got, saved, program, faults>>

Kill ==
    /\ Up # {} /\ Fault /\ Ends({})
    /\ UNCHANGED <<assets, installed, running, saved>>

-----------------------------------------------------------------------------

Next ==
    \/ \E r \in Releases : Publish(r) \/ Upgrade(r) \/ (\E d \in Data : Overwrite(r, d))
    \/ \E w \in Windows :
          \/ Launch(w) \/ Check(w) \/ Dismiss(w) \/ Press(w) \/ Download(w) \/ CompareAndSave(w)
          \/ Save(w) \/ HashFile(w) \/ Verify(w) \/ Install(w) \/ Answer(w) \/ Close(w)
    \/ Kill

Spec == Init /\ [][Next]_vars

-----------------------------------------------------------------------------
(* Properties *)

Taken == {"download", "compare", "save", "hash", "request", "verified"}

\* Whatever is damaged, fails or ends on the way, only a package that matches its
\* published checksum is installed, never one that is older than what runs, and what a
\* window offers, downloads or installs is newer than what runs and than what is there
\* (update_apply.rs:43-80, selfupdate.rs:6-45).  The helper's own check compares the
\* file with itself, so the comparison of the download is the one that counts: a file
\* changed after it, by something else or by a second window that writes it again, is
\* installed as it is.  A window compares with what it was built from: an offer
\* outlives what others have installed since.
UpdatesAreSound ==
    /\ others \subseteq {"upgrade"} => installed.good
    /\ others \subseteq {"window"} => installed.of >= running
    /\ \A w \in Up : /\ pending[w] # None => pending[w] > running
                     /\ task[w].step \in Taken => task[w].release > running
    /\ others \subseteq {"file"} =>
          \A w \in Up : /\ pending[w] # None => pending[w] > installed.of
                        /\ task[w].step \in Taken => task[w].release > installed.of

-----------------------------------------------------------------------------
(* Inductive strengthening of UpdatesAreSound *)

\* Unless a second window was opened there is one, and the helper works for a program
\* that has ended only if one has.
WhoIsThere ==
    /\ dead \subseteq AtHelper
    /\ "window" \notin others => \A v, w \in Up : v = w
    /\ "late" \notin others => dead = {}

\* An offer is a window's own and is taken for good; a task has the release of its
\* offer until its end; the only window compares with what is installed.
OfferTaken ==
    /\ \A w \in Windows :
          /\ w \notin Up \/ task[w].step \in Taken \cup {"installed"} => pending[w] = None
          /\ task[w].release # None <=> task[w].step \in Taken \cup {"installed"}
    /\ others \subseteq {"file"} => \A w \in Up : At(w, "check") => running = installed.of

\* The package under way is that of the release, and whole once the checksum matched:
\* nothing but that comparison stands between the download and the installation, and
\* nothing but others between the stored file and the one that is installed.
PackageMatches ==
    \A w \in Windows :
        /\ task[w].step \in {"compare", "save"} => got[w].file.of = task[w].release
        /\ At(w, "save") => got[w].file.good
        /\ others \subseteq {"window"} /\ task[w].step \in {"save", "hash", "request", "verified"}
              => saved[task[w].release].of = task[w].release
        /\ others \subseteq {"upgrade"} /\ task[w].step \in {"hash", "request", "verified"}
              => saved[task[w].release].good

UpdateInv == TypeOK /\ WhoIsThere /\ OfferTaken /\ PackageMatches /\ UpdatesAreSound
==============================================================================
