----------------------------- MODULE UpdateService -----------------------------
(***************************************************************************)
(* sched update check and apply around the folder that updater.exe empties *)
(* (Updater): a release is looked up, its archive downloaded next to its   *)
(* final name, renamed, compared with its checksum and announced.  Every   *)
(* request and every file operation may fail, a window may be closed at    *)
(* any point, and what the server offers may change, up or down.           *)
(*                                                                         *)
(* sched never unpacks the archive nor starts the updater: people do.      *)
(***************************************************************************)
EXTENDS Updater, Integers

CONSTANTS
    Version,        \* the releases there ever are
    Number,         \* Version -> [major, minor, patch, pre : Nat]
    Archive,        \* kAssetName
    Part,           \* the name the archive has while it is downloaded
    Had,            \* the program files of the release installed first
    Window,         \* sched processes that run update
    Hasty           \* they and the updater are used at the same time

ASSUME NamesAssumption ==
    /\ Archive # Part
    /\ File = Program \cup {Archive, Part, Folder}
    /\ {Archive, Part} \cap (Program \cup {Folder}) = {}
    /\ Had \subseteq Program /\ Exe \in Had

ASSUME VersionAssumption ==
    /\ None \notin Version
    /\ Number \in [Version -> [major : Nat, minor : Nat, patch : Nat, pre : Nat]]

Torn == "torn"      \* what is there of a file that was not written to its end
ASSUME TornAssumption == Torn \notin Version

VARIABLES
    window,         \* where each window is
    release,        \* what each has decided to fetch
    runs,           \* SCHED_VERSION of each
    announced,      \* what the last apply says it has put in the staging folder
    unpacked,       \* an announced archive was unpacked, program files at the top
    given           \* the updater was started on such files

service == <<window, release, runs, announced, unpacked, given>>
all == <<folders, process, service>>

ServiceInit ==
    /\ \E v \in Version : installed = [f \in Program |-> IF f \in Had THEN v ELSE None]
    /\ UpdaterInit
    /\ window = [w \in Window |-> "closed"]
    /\ release = [w \in Window |-> None]
    /\ runs = [w \in Window |-> None]
    /\ announced = None
    /\ unpacked = FALSE
    /\ given = FALSE

-----------------------------------------------------------------------------
(* Versions.  The text behind the dash is a number here: its place among   *)
(* such texts in the order of std::string, 0 when there is none.           *)

\* A slip: each part is compared by itself.
BeforeByParts(a, b) ==
    \/ a.major < b.major \/ a.minor < b.minor \/ a.patch < b.patch

\* A release comes after its own pre-releases.
Before(a, b) ==
    \/ a.major < b.major
    \/ a.major = b.major /\ a.minor < b.minor
    \/ a.major = b.major /\ a.minor = b.minor /\ a.patch < b.patch
    \/ /\ a.major = b.major /\ a.minor = b.minor /\ a.patch = b.patch
       /\ IF b.pre = 0 THEN a.pre # 0 ELSE a.pre # 0 /\ a.pre < b.pre

Newer(v, u) == Before(Number[u], Number[v])

-----------------------------------------------------------------------------
(* sched update *)

InPeace(w) ==
    /\ ~Hasty => pc \in AtRest
    /\ ~Hasty => \A x \in Window \ {w} : window[x] = "closed"

\* SCHED_VERSION is taken to be the tag of the release: it is set by hand
\* (CMakeLists.txt).
Open(w) ==
    /\ window[w] = "closed"
    /\ InPeace(w)
    /\ installed[Exe] \in Version
    /\ window' = [window EXCEPT ![w] = "asking"]
    /\ runs' = [runs EXCEPT ![w] = installed[Exe]]
    /\ UNCHANGED <<folders, process, release, announced, unpacked, given>>

Close(w) ==
    /\ window' = [window EXCEPT ![w] = "closed"]
    /\ release' = [release EXCEPT ![w] = None]
    /\ runs' = [runs EXCEPT ![w] = None]

\* Switched off, no network, no answer that can be read, only asked (update
\* check), or the process has ended before it was told to fetch anything.
NothingToDo(w) ==
    /\ window[w] = "asking"
    /\ Close(w)
    /\ UNCHANGED <<folders, process, announced, unpacked, given>>

\* What the server calls its latest release, v, may go up and down.
Available(w, v) ==
    /\ window[w] = "asking"
    /\ Newer(v, runs[w])
    /\ window' = [window EXCEPT ![w] = "clearing"]
    /\ release' = [release EXCEPT ![w] = v]
    /\ UNCHANGED <<folders, process, runs, announced, unpacked, given>>

RemoveStaged ==
    /\ RemoveAll
    /\ announced' = None
    /\ unpacked' = FALSE

Clear(w) ==
    /\ window[w] = "clearing"
    /\ RemoveStaged
    /\ window' = [window EXCEPT ![w] = "fetching"]
    /\ UNCHANGED <<installed, backup, process, release, runs, given>>

Fetch(w) ==
    /\ window[w] = "fetching"
    /\ staged' = [staged EXCEPT ![Part] = Torn]
    /\ window' = [window EXCEPT ![w] = "receiving"]
    /\ UNCHANGED <<installed, backup, process, release, runs, announced, unpacked, given>>

\* All of it has come; whether all of it was written is not looked at.
Receive(w) ==
    /\ window[w] = "receiving"
    /\ staged' \in {staged, [staged EXCEPT ![Part] = release[w]]}
    /\ window' = [window EXCEPT ![w] = "renaming"]
    /\ UNCHANGED <<installed, backup, process, release, runs, announced, unpacked, given>>

Rename(w) ==
    /\ window[w] = "renaming"
    /\ staged[Part] # None
    /\ staged' = [staged EXCEPT ![Archive] = staged[Part], ![Part] = None]
    /\ window' = [window EXCEPT ![w] = "verifying"]
    /\ UNCHANGED <<installed, backup, process, release, runs, announced, unpacked, given>>

\* A slip: the archive is there, that is enough.
VerifyNothing(w) ==
    /\ window[w] = "verifying"
    /\ staged[Archive] # None
    /\ window' = [window EXCEPT ![w] = "verified"]
    /\ UNCHANGED <<folders, process, release, runs, announced, unpacked, given>>

\* The release has a checksum for the archive, and it is this archive's.
Verify(w) ==
    /\ window[w] = "verifying"
    /\ staged[Archive] = release[w]
    /\ window' = [window EXCEPT ![w] = "verified"]
    /\ UNCHANGED <<folders, process, release, runs, announced, unpacked, given>>

\* A request or a rename fails, there is no checksum, or it is another one.
Fail(w) ==
    /\ window[w] \in {"fetching", "receiving", "renaming", "verifying"}
    /\ RemoveStaged
    /\ Close(w)
    /\ UNCHANGED <<installed, backup, process, given>>

Announce(w) ==
    /\ window[w] = "verified"
    /\ announced' = release[w]
    /\ Close(w)
    /\ UNCHANGED <<folders, process, unpacked, given>>

EndsEarly(w) ==
    /\ window[w] \notin {"closed", "asking"}
    /\ Close(w)
    /\ UNCHANGED <<folders, process, announced, unpacked, given>>

ApplyStep ==
    \E w \in Window :
        \/ Open(w) \/ NothingToDo(w) \/ \E v \in Version : Available(w, v)
        \/ Clear(w) \/ Fetch(w) \/ Receive(w) \/ Rename(w) \/ Verify(w)
        \/ Fail(w) \/ Announce(w) \/ EndsEarly(w)

-----------------------------------------------------------------------------
(* The world around it *)

\* Somebody unpacks there the archive sched has announced: into the staging
\* folder itself, or as it is packed, in a folder below it, or partly so.
Unpack ==
    /\ announced # None
    /\ pc \in AtRest
    /\ staged[Archive] # None
    /\ \E top \in SUBSET Program, kept \in BOOLEAN :
           /\ staged' = [f \in File |->
                CASE f \in top -> staged[Archive]
                  [] f = Folder /\ top # Program -> staged[Archive]
                  [] f = Archive /\ ~kept -> None
                  [] OTHER -> staged[f]]
           /\ unpacked' = (top = Program)
    /\ UNCHANGED <<installed, backup, process, window, release, runs, announced, given>>

\* Somebody starts the updater.
StartUpdater ==
    /\ ~Hasty => \A w \in Window : window[w] = "closed"
    /\ Begin
    /\ given' = unpacked
    /\ UNCHANGED <<window, release, runs, announced, unpacked>>

UpdaterStep ==
    /\ ParentStays \/ UpdateStep \/ Killed
    /\ UNCHANGED service

ServiceNext == ApplyStep \/ Unpack \/ StartUpdater \/ UpdaterStep

UpdateSpec == ServiceInit /\ [][ServiceNext]_all

-----------------------------------------------------------------------------
(* Properties *)

Contents == Version \cup {None, Torn}

TypeOK ==
    /\ installed \in [Program -> Contents]
    /\ backup \in [Program -> Contents]
    /\ staged \in [File -> Contents]
    /\ current \in File \cup {NoOne}
    /\ pc \in {"dropBackup", "moveAside", "moveIn"} => current \in File
    /\ hasBackup \in BOOLEAN
    /\ applied \subseteq File \X BOOLEAN
    /\ pc \in AtRest \cup {"next", "dropBackup", "moveAside", "moveIn", "cleanUp"}
    /\ launched \in Contents
    /\ window \in [Window -> {"closed", "asking", "clearing", "fetching", "receiving",
                              "renaming", "verifying", "verified"}]
    /\ release \in [Window -> Version \cup {None}]
    /\ runs \in [Window -> Contents]
    /\ announced \in Version \cup {None}
    /\ unpacked \in BOOLEAN
    /\ given \in BOOLEAN

\* However often an update fails, is cut short and is begun again, there is a
\* whole version of every file that was installed, in place or as .old: what
\* came only in part never gets there.
NoProgramFileLost == \A f \in Had : {installed[f], backup[f]} \cap Version # {}

\* Until the staging folder is emptied for the next one, an update that was
\* unpacked with all program files in that folder itself can be completed:
\* what is not in place is still staged.
CanBeCompleted ==
    unpacked => \E v \in Version : \A f \in Program : v \in {installed[f], staged[f]}

\* From files that were unpacked like that the updater starts the program only
\* whole.
RelaunchedWhole ==
    pc = "relaunched" /\ given =>
        \E v \in Version : \A f \in Program : installed[f] = v

\* No chain of updates leads back to a version the program has left.
NoWayBack == [][~Newer(launched, launched')]_launched

-----------------------------------------------------------------------------
(* What the documents say and the code does not do. *)

\* updater/main.cpp:126: after a failure the files are as they were before.
FailureChangesNothing ==
    pc = "failed" => \E v \in Version : \A f \in Had : installed[f] = v

\* updater/main.cpp:8: the new files are moved in place before the program is
\* started again.
FinishedMeansMoved == pc = "cleanUp" => staged = Emptied

\* docs/ROADMAP.md:229: what is announced is then installed.
AnnouncedIsInstalled ==
    pc = "relaunched" /\ announced # None => installed[Exe] = announced

=============================================================================
