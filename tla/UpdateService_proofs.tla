-------------------------- MODULE UpdateService_proofs --------------------------
(***************************************************************************)
(* What holds of update and updater for every set of files, of releases    *)
(* and of windows, when one of them works at a time (~Hasty).              *)
(***************************************************************************)
EXTENDS UpdateService, TLAPS

Numbers == [major : Nat, minor : Nat, patch : Nat, pre : Nat]

\* operator<=> of util::Version is a strict total order: nothing is before
\* itself, before is passed on, and of two different versions one is before
\* the other.
THEOREM VersionOrder ==
    /\ \A a \in Numbers : ~Before(a, a)
    /\ \A a, b, c \in Numbers : Before(a, b) /\ Before(b, c) => Before(a, c)
    /\ \A a, b \in Numbers : a # b => Before(a, b) \/ Before(b, a)
<1>1. \A a \in Numbers : ~Before(a, a)
    BY DEF Numbers, Before
<1>2. \A a, b, c \in Numbers : Before(a, b) /\ Before(b, c) => Before(a, c)
    BY DEF Numbers, Before
<1>3. \A a, b \in Numbers : a # b => Before(a, b) \/ Before(b, a)
    <2>. SUFFICES ASSUME NEW a \in Numbers, NEW b \in Numbers,
                         ~Before(a, b), ~Before(b, a)
                  PROVE  a = b
        OBVIOUS
    <2>1. a.major = b.major /\ a.minor = b.minor /\ a.patch = b.patch /\ a.pre = b.pre
        BY DEF Numbers, Before
    <2>. QED  BY <2>1 DEF Numbers
<1>. QED  BY <1>1, <1>2, <1>3

LEMMA NewerOrder ==
    /\ \A v \in Version : ~Newer(v, v)
    /\ \A u, v, w \in Version : Newer(w, v) /\ ~Newer(u, v) => ~Newer(u, w)
<1>1. \A v \in Version : Number[v] \in Numbers
    BY VersionAssumption DEF Numbers
<1>2. ASSUME NEW u \in Version, NEW v \in Version, NEW w \in Version,
             Newer(w, v), ~Newer(u, v)
      PROVE  ~Newer(u, w)
    BY <1>1, <1>2, VersionOrder DEF Newer
<1>. QED  BY <1>1, <1>2, VersionOrder DEF Newer

-----------------------------------------------------------------------------
(* Type correctness *)

LEMMA TypeInit == ServiceInit => TypeOK
<1>. SUFFICES ASSUME ServiceInit  PROVE TypeOK
  OBVIOUS
<1>1. installed \in [Program -> Contents]
  BY DEF ServiceInit, Contents
<1>2. launched \in Contents
  BY <1>1, ProgramAssumption DEF ServiceInit, UpdaterInit
<1>3. staged \in [File -> Contents] /\ backup \in [Program -> Contents]
  BY DEF ServiceInit, UpdaterInit, Contents, Emptied, NoFiles
<1>. QED  BY <1>1, <1>2, <1>3 DEF ServiceInit, UpdaterInit, TypeOK, Contents, AtRest

LEMMA TypeNext == TypeOK /\ [ServiceNext]_all => TypeOK'
<1>. SUFFICES ASSUME TypeOK, [ServiceNext]_all  PROVE TypeOK'
  OBVIOUS
<1>. USE DEF TypeOK, Contents, AtRest
<1>1. CASE ApplyStep
  <2>. PICK w \in Window :
          \/ Open(w) \/ NothingToDo(w) \/ \E v \in Version : Available(w, v)
          \/ Clear(w) \/ Fetch(w) \/ Receive(w) \/ Rename(w) \/ Verify(w)
          \/ Fail(w) \/ Announce(w) \/ EndsEarly(w)
    BY <1>1 DEF ApplyStep
  <2>1. CASE Open(w)
    BY <2>1 DEF Open, folders, process
  <2>2. CASE NothingToDo(w)
    BY <2>2 DEF NothingToDo, Close, folders, process
  <2>3. CASE \E v \in Version : Available(w, v)
    BY <2>3 DEF Available, folders, process
  <2>4. CASE Clear(w)
    BY <2>4 DEF Clear, RemoveStaged, RemoveAll, process
  <2>5. CASE Fetch(w)
    BY <2>5 DEF Fetch, process
  <2>6. CASE Receive(w)
    BY <2>6 DEF Receive, process
  <2>7. CASE Rename(w)
    <3>1. staged' \in [File -> Contents]
      BY <2>7, NamesAssumption DEF Rename
    <3>. QED  BY <2>7, <3>1 DEF Rename, process
  <2>8. CASE Verify(w)
    BY <2>8 DEF Verify, folders, process
  <2>9. CASE Fail(w)
    BY <2>9 DEF Fail, RemoveStaged, RemoveAll, Close, process
  <2>10. CASE Announce(w)
    BY <2>10 DEF Announce, Close, folders, process
  <2>11. CASE EndsEarly(w)
    BY <2>11 DEF EndsEarly, Close, folders, process
  <2>. QED  BY <2>1, <2>2, <2>3, <2>4, <2>5, <2>6, <2>7, <2>8, <2>9, <2>10, <2>11
<1>2. CASE Unpack
  BY <1>2, NamesAssumption DEF Unpack, process
<1>3. CASE StartUpdater
  BY <1>3 DEF StartUpdater, Begin, folders
<1>4. CASE UpdaterStep
  <2>. USE DEF service, folders, End, NoOne
  <2>0. UNCHANGED service
    BY <1>4 DEF UpdaterStep
  <2>1. ASSUME NEW f \in File, NextFile(f)  PROVE TypeOK'
    BY <2>0, <2>1 DEF NextFile, InPlace
  <2>2. CASE DropBackup
    BY <2>0, <2>2 DEF DropBackup
  <2>3. CASE MoveAside
    BY <2>0, <2>3 DEF MoveAside
  <2>4. CASE MoveAsideFails
    BY <2>0, <2>4 DEF MoveAsideFails
  <2>5. CASE MoveIn
    <3>. staged' \in [File -> Contents]
      BY <2>5 DEF MoveIn, None
    <3>. installed' \in [Program -> Contents]
      <4>1. current \in File /\ staged[current] \in Contents
        BY <2>5 DEF MoveIn
      <4>. QED  BY <2>5, <4>1 DEF MoveIn
    <3>. applied' \subseteq File \X BOOLEAN
      <4>1. <<current, hasBackup>> \in File \X BOOLEAN
        BY <2>5, Zenon DEF MoveIn
      <4>. QED  BY <2>5, <4>1, Zenon DEF MoveIn
    <3>. QED  BY <2>0, <2>5 DEF MoveIn
  <2>6. CASE MoveInFails
    BY <2>0, <2>6 DEF MoveInFails
  <2>7. CASE NoMoreFiles
    BY <2>0, <2>7 DEF NoMoreFiles
  <2>8. ASSUME NEW f \in File, CleanUp(f)  PROVE TypeOK'
    BY <2>0, <2>8 DEF CleanUp
  <2>9. CASE Relaunch
    BY <2>0, <2>9, ProgramAssumption DEF Relaunch, RemoveAll
  <2>10. CASE ParentStays
    BY <2>0, <2>10 DEF ParentStays
  <2>11. CASE Killed
    BY <2>0, <2>11 DEF Killed
  <2>. QED  BY <1>4, <2>1, <2>2, <2>3, <2>4, <2>5, <2>6, <2>7, <2>8, <2>9, <2>10, <2>11
            DEF UpdaterStep, UpdateStep
<1>5. CASE UNCHANGED all
  BY <1>5 DEF all, folders, process, service
<1>. QED  BY <1>1, <1>2, <1>3, <1>4, <1>5 DEF ServiceNext

\* The variables of update and updater keep their types.
THEOREM TypeCorrect == UpdateSpec => []TypeOK
BY TypeInit, TypeNext, PTL DEF UpdateSpec

-----------------------------------------------------------------------------
(* The inductive invariant *)

Whole == Version \cup {None}

\* One window or the updater is at work; it runs what is installed and
\* fetches something newer.
Apart ==
    /\ \A w, x \in Window : window[w] # "closed" /\ window[x] # "closed" => w = x
    /\ \A w \in Window : window[w] # "closed" =>
          /\ pc \in AtRest
          /\ runs[w] = installed[Exe] /\ runs[w] \in Version
    /\ \A w \in Window : window[w] \notin {"closed", "asking"} =>
          release[w] \in Version /\ Newer(release[w], runs[w])

\* Only what was verified is announced, and only what was announced unpacked.
Fetched ==
    /\ \A w \in Window : window[w] \notin {"closed", "asking", "clearing"} => announced = None
    /\ \A w \in Window : window[w] = "verified" => staged[Archive] = release[w]
    /\ announced # None => staged[Archive] \in Whole
    /\ \A f \in Program : installed[f] \in Whole /\ backup[f] \in Whole /\ staged[f] \in Whole

\* What the steps of a replacement have done so far.
Moving ==
    /\ pc \in AtRest => applied = {}
    /\ pc \in {"dropBackup", "moveAside"} => InPlace(current) /\ hasBackup
    /\ pc \in {"dropBackup", "moveAside", "moveIn"} => staged[current] # None
    /\ pc = "moveIn" /\ hasBackup => current \in Program /\ backup[current] # None
    /\ \A f \in File : <<f, TRUE>> \in applied => InPlace(f) /\ staged[f] = None
    /\ pc = "cleanUp" => \A f \in File \ {Folder} : staged[f] = None

Kept == \A f \in Had : installed[f] # None \/ backup[f] # None

\* All of a version is there, be it staged or in place, and the updater works
\* on it.
Complete ==
    /\ unpacked =>
         \E v \in Version : \A f \in Program :
             staged[f] = v \/ (staged[f] = None /\ installed[f] = v)
    /\ given /\ pc \notin AtRest => unpacked

\* Nothing that may be started one day is older than what was.
NotBefore(v) == v # None => ~Newer(launched, v)
Rising ==
    /\ launched \in Version
    /\ NotBefore(installed[Exe])
    /\ NotBefore(staged[Exe])
    /\ announced # None => NotBefore(staged[Archive])
    /\ pc = "moveIn" /\ current = Exe /\ hasBackup => NotBefore(backup[Exe])

Inv == TypeOK /\ Apart /\ Fetched /\ Moving /\ Kept /\ Complete /\ RelaunchedWhole /\ Rising

LEMMA ApplyLeaves ==
    ApplyStep => UNCHANGED <<installed, backup, process, given>>
BY DEF ApplyStep, Open, NothingToDo, Available, Clear, Fetch, Receive, Rename, Verify, Fail,
       Announce, EndsEarly, folders

\* At rest, only ParentStays is a step of the updater.
LEMMA RestIsRest ==
    ASSUME pc \in AtRest, UpdaterStep
    PROVE  pc' \in AtRest /\ UNCHANGED <<folders, current, hasBackup, applied, launched, service>>
<1>1. ~UpdateStep
    BY DEF UpdateStep, AtRest, NextFile, CleanUp, DropBackup, MoveAside, MoveAsideFails, MoveIn,
           MoveInFails, NoMoreFiles, Relaunch
<1>2. ~Killed
    BY DEF Killed
<1>. QED  BY <1>1, <1>2 DEF UpdaterStep, ParentStays, AtRest

LEMMA InitInv == ServiceInit => Inv
<1>. SUFFICES ASSUME ServiceInit  PROVE Inv
    OBVIOUS
<1>. USE ProgramAssumption, NamesAssumption, VersionAssumption DEF ServiceInit, UpdaterInit
<1>1. PICK v \in Version : installed = [f \in Program |-> IF f \in Had THEN v ELSE None]
    OBVIOUS
<1>2. Exe \in Had /\ Exe \in File /\ installed[Exe] = v /\ Archive \in File
    BY <1>1
<1>3. Apart
    BY DEF Apart
<1>4. Fetched
    BY <1>1 DEF Fetched, NoFiles, Emptied, Whole
<1>5. Moving
    BY DEF Moving, AtRest
<1>6. Kept
    BY <1>1 DEF Kept
<1>7. Complete /\ RelaunchedWhole
    BY DEF Complete, RelaunchedWhole
<1>8. Rising
    BY <1>2, NewerOrder DEF Rising, NotBefore, Emptied
<1>. QED  BY <1>3, <1>4, <1>5, <1>6, <1>7, <1>8, TypeInit DEF Inv

LEMMA ApartNext == ~Hasty /\ Inv /\ [ServiceNext]_all => Apart'
<1>. SUFFICES ASSUME ~Hasty, Inv, [ServiceNext]_all  PROVE Apart'
    OBVIOUS
<1>. USE DEF Apart
<1>0. TypeOK /\ Apart
    BY DEF Inv
<1>1. CASE ApplyStep
  <2>0. UNCHANGED <<installed, pc>>
    BY <1>1, ApplyLeaves DEF process
  <2>. PICK w \in Window :
            \/ Open(w) \/ NothingToDo(w) \/ \E v \in Version : Available(w, v)
            \/ Clear(w) \/ Fetch(w) \/ Receive(w) \/ Rename(w) \/ Verify(w)
            \/ Fail(w) \/ Announce(w) \/ EndsEarly(w)
    BY <1>1 DEF ApplyStep
  <2>. USE <1>0, <2>0 DEF TypeOK
  <2>1. CASE Open(w)
    BY <2>1 DEF Open, InPeace
  <2>2. CASE \E v \in Version : Available(w, v)
    BY <2>2 DEF Available
  <2>3. CASE Clear(w) \/ Fetch(w) \/ Receive(w) \/ Rename(w) \/ Verify(w)
    BY <2>3 DEF Clear, Fetch, Receive, Rename, Verify
  <2>4. CASE NothingToDo(w) \/ Fail(w) \/ Announce(w) \/ EndsEarly(w)
    <3>. Close(w)
      BY <2>4 DEF NothingToDo, Fail, Announce, EndsEarly
    <3>. QED  BY DEF Close
  <2>. QED  BY <2>1, <2>2, <2>3, <2>4
<1>2. CASE Unpack
  BY <1>0, <1>2 DEF Unpack, process
<1>3. CASE StartUpdater
  BY <1>0, <1>3 DEF StartUpdater, Begin, folders
<1>4. CASE UpdaterStep
  <2>1. UNCHANGED <<window, release, runs>>
    BY <1>4 DEF UpdaterStep, service
  <2>2. CASE pc \in AtRest
    BY <1>0, <1>4, <2>1, <2>2, RestIsRest DEF folders
  <2>3. CASE pc \notin AtRest
    BY <1>0, <2>1, <2>3
  <2>. QED  BY <2>2, <2>3
<1>5. CASE UNCHANGED all
  BY <1>0, <1>5 DEF all, folders, process, service
<1>. QED  BY <1>1, <1>2, <1>3, <1>4, <1>5 DEF ServiceNext


LEMMA FetchedNext == ~Hasty /\ Inv /\ [ServiceNext]_all => Fetched'
<1>. SUFFICES ASSUME ~Hasty, Inv, [ServiceNext]_all  PROVE Fetched'
    OBVIOUS
<1>0. TypeOK /\ Apart /\ Fetched /\ Moving
    BY DEF Inv
<1>. USE DEF Fetched, Whole
<1>1. CASE ApplyStep
  <2>0. UNCHANGED <<installed, backup, pc>>
    BY <1>1, ApplyLeaves DEF process
  <2>. PICK w \in Window :
            \/ Open(w) \/ NothingToDo(w) \/ \E v \in Version : Available(w, v)
            \/ Clear(w) \/ Fetch(w) \/ Receive(w) \/ Rename(w) \/ Verify(w)
            \/ Fail(w) \/ Announce(w) \/ EndsEarly(w)
    BY <1>1 DEF ApplyStep
  <2>. USE <1>0, <2>0, NamesAssumption DEF TypeOK, Apart
  <2>1. CASE Open(w)
    BY <2>1 DEF Open, folders
  <2>2. CASE \E v \in Version : Available(w, v)
    BY <2>2 DEF Available, folders
  <2>3. CASE Clear(w)
    BY <2>3 DEF Clear, RemoveStaged, RemoveAll
  <2>4. CASE Fetch(w)
    BY <2>4 DEF Fetch
  <2>5. CASE Receive(w)
    BY <2>5 DEF Receive
  <2>6. CASE Rename(w)
    BY <2>6 DEF Rename
  <2>7. CASE Verify(w)
    BY <2>7 DEF Verify, folders
  <2>8. CASE NothingToDo(w) \/ EndsEarly(w)
    BY <2>8 DEF NothingToDo, EndsEarly, Close, folders
  <2>9. CASE Fail(w)
    BY <2>9 DEF Fail, Close, RemoveStaged, RemoveAll
  <2>10. CASE Announce(w)
    BY <2>10 DEF Announce, Close, folders
  <2>. QED  BY <2>1, <2>2, <2>3, <2>4, <2>5, <2>6, <2>7, <2>8, <2>9, <2>10
<1>2. CASE Unpack
  <2>1. staged[Archive] \in Version
    BY <1>0, <1>2 DEF Unpack
  <2>2. UNCHANGED <<installed, backup, window, release, announced>>
    BY <1>2 DEF Unpack
  <2>3. staged'[Archive] \in Version \cup {None}
    BY <1>2, <2>1, NamesAssumption DEF Unpack
  <2>4. \A f \in Program : staged'[f] \in Whole
    <3>1. \A f \in Program : staged'[f] \in {staged[f], staged[Archive]}
      BY <1>2, NamesAssumption, ProgramAssumption DEF Unpack
    <3>. QED  BY <1>0, <2>1, <3>1
  <2>5. \A w \in Window : window[w] # "verified"
    BY <1>0, <1>2 DEF Unpack
  <2>. QED  BY <1>0, <2>2, <2>3, <2>4, <2>5
<1>3. CASE StartUpdater
  BY <1>0, <1>3 DEF StartUpdater, Begin, folders
<1>4. CASE UpdaterStep
  <2>0. UNCHANGED <<window, release, announced>>
    BY <1>4 DEF UpdaterStep, service
  <2>1. CASE pc \in AtRest
    BY <1>0, <1>4, <2>0, <2>1, RestIsRest DEF folders
  <2>2. CASE pc \notin AtRest
    <3>. \A w \in Window : window[w] = "closed"
      BY <1>0, <2>2 DEF Apart
    <3>. USE <1>0, <2>0, NamesAssumption DEF TypeOK, folders
    <3>1. ASSUME NEW f \in File, NextFile(f) \/ CleanUp(f)  PROVE Fetched'
      BY <3>1 DEF NextFile, CleanUp
    <3>2. CASE DropBackup
      BY <3>2 DEF DropBackup
    <3>3. CASE MoveAside
      BY <3>3 DEF MoveAside, Moving, InPlace
    <3>4. CASE MoveAsideFails
      BY <3>4 DEF MoveAsideFails
    <3>5. CASE MoveIn
      BY <3>5 DEF MoveIn
    <3>6. CASE MoveInFails
      BY <3>6 DEF MoveInFails, Moving
    <3>7. CASE NoMoreFiles \/ ParentStays \/ Killed
      BY <3>7 DEF NoMoreFiles, ParentStays, Killed
    <3>8. CASE Relaunch
      BY <3>8 DEF Relaunch, RemoveAll
    <3>. QED  BY <1>4, <3>1, <3>2, <3>3, <3>4, <3>5, <3>6, <3>7, <3>8
              DEF UpdaterStep, UpdateStep
  <2>. QED  BY <2>1, <2>2
<1>5. CASE UNCHANGED all
  BY <1>0, <1>5 DEF all, folders, service
<1>. QED  BY <1>1, <1>2, <1>3, <1>4, <1>5 DEF ServiceNext

LEMMA MovingNext == ~Hasty /\ Inv /\ [ServiceNext]_all => Moving'
<1>. SUFFICES ASSUME ~Hasty, Inv, [ServiceNext]_all  PROVE Moving'
    OBVIOUS
<1>0. TypeOK /\ Apart /\ Fetched /\ Moving
    BY DEF Inv
<1>. USE DEF Moving, InPlace, AtRest
<1>1. CASE ApplyStep
  <2>1. pc \in AtRest
    <3>1. PICK w \in Window : ~(window[w] = "closed") \/ Open(w)
      BY <1>1 DEF ApplyStep, NothingToDo, Available, Clear, Fetch, Receive, Rename, Verify,
                  Fail, Announce, EndsEarly
    <3>. QED  BY <1>0, <3>1 DEF Apart, Open, InPeace
  <2>. QED  BY <1>0, <1>1, <2>1, ApplyLeaves DEF process
<1>2. CASE Unpack
  BY <1>0, <1>2 DEF Unpack, process
<1>3. CASE StartUpdater
  BY <1>0, <1>3 DEF StartUpdater, Begin, folders
<1>4. CASE UpdaterStep
  <2>. USE <1>0 DEF folders, TypeOK, End
  <2>1. ASSUME NEW f \in File, NextFile(f)  PROVE Moving'
    BY <2>1 DEF NextFile
  <2>2. CASE DropBackup
    BY <2>2 DEF DropBackup
  <2>3. CASE MoveAside
    <3>. backup'[current] # None /\ hasBackup /\ current \in Program
      BY <2>3 DEF MoveAside
    <3>. QED  BY <2>3 DEF MoveAside
  <2>4. CASE MoveAsideFails \/ MoveInFails \/ Killed
    BY <2>4 DEF MoveAsideFails, MoveInFails, Killed
  <2>5. CASE MoveIn
    <3>1. installed'[current] # None \/ current \notin Program
      BY <2>5 DEF MoveIn
    <3>2. staged'[current] = None
      BY <2>5 DEF MoveIn
    <3>3. \A f \in File \ {current} : staged'[f] = staged[f]
      BY <2>5 DEF MoveIn
    <3>4. \A f \in Program \ {current} : installed'[f] = installed[f]
      BY <2>5 DEF MoveIn
    <3>5. \A f \in File : <<f, TRUE>> \in applied' =>
              <<f, TRUE>> \in applied \/ (f = current /\ hasBackup)
      BY <2>5, Zenon DEF MoveIn
    <3>. QED  BY <2>5, <3>1, <3>2, <3>3, <3>4, <3>5 DEF MoveIn
  <2>6. CASE NoMoreFiles \/ ParentStays
    BY <2>6 DEF NoMoreFiles, ParentStays
  <2>7. ASSUME NEW f \in File, CleanUp(f)  PROVE Moving'
    BY <2>7 DEF CleanUp
  <2>8. CASE Relaunch
    BY <2>8 DEF Relaunch, RemoveAll
  <2>. QED  BY <1>4, <2>1, <2>2, <2>3, <2>4, <2>5, <2>6, <2>7, <2>8
            DEF UpdaterStep, UpdateStep
<1>5. CASE UNCHANGED all
  BY <1>0, <1>5 DEF all, folders, process
<1>. QED  BY <1>1, <1>2, <1>3, <1>4, <1>5 DEF ServiceNext

LEMMA KeptNext == ~Hasty /\ Inv /\ [ServiceNext]_all => Kept'
<1>. SUFFICES ASSUME ~Hasty, Inv, [ServiceNext]_all  PROVE Kept'
    OBVIOUS
<1>0. TypeOK /\ Moving /\ Kept /\ Had \subseteq Program
    BY NamesAssumption DEF Inv
<1>. USE DEF Kept
<1>1. CASE ApplyStep
  BY <1>0, <1>1, ApplyLeaves
<1>2. CASE Unpack \/ StartUpdater
  BY <1>0, <1>2 DEF Unpack, StartUpdater, Begin, folders
<1>3. CASE UpdaterStep
  <2>. USE <1>0 DEF folders, TypeOK
  <2>1. ASSUME NEW f \in File, NextFile(f)  PROVE Kept'
    BY <2>1 DEF NextFile
  <2>2. CASE DropBackup
    BY <2>2 DEF DropBackup, Moving, InPlace
  <2>3. CASE MoveAside
    BY <2>3 DEF MoveAside, Moving, InPlace
  <2>4. CASE MoveAsideFails \/ Killed \/ NoMoreFiles \/ ParentStays \/ Relaunch
    BY <2>4 DEF MoveAsideFails, Killed, NoMoreFiles, ParentStays, Relaunch
  <2>5. CASE MoveIn
    BY <2>5 DEF MoveIn
  <2>6. CASE MoveInFails
    BY <2>6 DEF MoveInFails, Moving
  <2>7. ASSUME NEW f \in File, CleanUp(f)  PROVE Kept'
    BY <2>7 DEF CleanUp, Moving, InPlace
  <2>. QED  BY <1>3, <2>1, <2>2, <2>3, <2>4, <2>5, <2>6, <2>7 DEF UpdaterStep, UpdateStep
<1>4. CASE UNCHANGED all
  BY <1>0, <1>4 DEF all, folders
<1>. QED  BY <1>1, <1>2, <1>3, <1>4 DEF ServiceNext

\* All of v is there.
Ready(v) ==
    \A f \in Program : staged[f] = v \/ (staged[f] = None /\ installed[f] = v)

LEMMA CompleteNext ==
    ~Hasty /\ Inv /\ [ServiceNext]_all => Complete' /\ RelaunchedWhole'
<1>. SUFFICES ASSUME ~Hasty, Inv, [ServiceNext]_all  PROVE Complete' /\ RelaunchedWhole'
    OBVIOUS
<1>0. TypeOK /\ Apart /\ Fetched /\ Moving /\ Complete /\ RelaunchedWhole
    BY DEF Inv
<1>. USE NamesAssumption, VersionAssumption DEF Complete, RelaunchedWhole
<1>1. CASE ApplyStep
  <2>1. PICK w \in Window :
            \/ Open(w) \/ NothingToDo(w) \/ \E v \in Version : Available(w, v)
            \/ Clear(w) \/ Fetch(w) \/ Receive(w) \/ Rename(w) \/ Verify(w)
            \/ Fail(w) \/ Announce(w) \/ EndsEarly(w)
    BY <1>1 DEF ApplyStep
  <2>2. UNCHANGED <<installed, pc, given>>
    BY <1>1, ApplyLeaves DEF process
  <2>3. pc \in AtRest
    BY <1>0, <2>1 DEF Apart, Open, InPeace, NothingToDo, Available, Clear, Fetch, Receive,
                      Rename, Verify, Fail, Announce, EndsEarly
  <2>4. unpacked' => unpacked /\ \A f \in Program : staged'[f] = staged[f]
    <3>. USE <1>0, <2>1 DEF TypeOK
    <3>1. CASE Open(w) \/ NothingToDo(w) \/ (\E v \in Version : Available(w, v)) \/ Verify(w)
               \/ Announce(w) \/ EndsEarly(w)
      BY <3>1 DEF Open, NothingToDo, Available, Verify, Announce, EndsEarly, folders
    <3>2. CASE Clear(w) \/ Fail(w)
      BY <3>2 DEF Clear, Fail, RemoveStaged, RemoveAll
    <3>3. CASE Fetch(w)
      BY <3>3 DEF Fetch
    <3>4. CASE Receive(w)
      BY <3>4 DEF Receive
    <3>5. CASE Rename(w)
      BY <3>5 DEF Rename
    <3>. QED  BY <3>1, <3>2, <3>3, <3>4, <3>5
  <2>. QED  BY <1>0, <2>2, <2>3, <2>4
<1>2. CASE Unpack
  <2>1. staged[Archive] \in Version
    BY <1>0, <1>2 DEF Unpack, Fetched, Whole
  <2>2. unpacked' => \A f \in Program : staged'[f] = staged[Archive]
    <3>1. PICK top \in SUBSET Program, kept \in BOOLEAN :
              /\ staged' = [f \in File |->
                   CASE f \in top -> staged[Archive]
                     [] f = Folder /\ top # Program -> staged[Archive]
                     [] f = Archive /\ ~kept -> None
                     [] OTHER -> staged[f]]
              /\ unpacked' = (top = Program)
      BY <1>2 DEF Unpack
    <3>2. Program \cap {Folder, Archive} = {} /\ Program \subseteq File
      BY ProgramAssumption
    <3>3. ASSUME unpacked', NEW f \in Program  PROVE staged'[f] = staged[Archive]
      BY <3>1, <3>2, <3>3
    <3>. QED  BY <3>3
  <2>3. pc \in AtRest /\ UNCHANGED <<installed, pc, given>>
    BY <1>2 DEF Unpack, process
  <2>. QED  BY <1>0, <2>1, <2>2, <2>3
<1>3. CASE StartUpdater
  BY <1>0, <1>3 DEF StartUpdater, Begin, folders
<1>4. CASE UpdaterStep
  <2>0. UNCHANGED <<unpacked, given>>
    BY <1>4 DEF UpdaterStep, service
  <2>1. CASE pc \in AtRest
    <3>. pc' = "idle" /\ UNCHANGED folders
      BY <1>4, <2>1 DEF UpdaterStep, UpdateStep, ParentStays, Killed, AtRest, NextFile, CleanUp,
         DropBackup, MoveAside, MoveAsideFails, MoveIn, MoveInFails, NoMoreFiles, Relaunch
    <3>. QED  BY <1>0, <2>0, <2>1 DEF folders, AtRest
  <2>2. CASE pc \notin AtRest
    <3>1. given => unpacked
      BY <1>0, <2>2
    <3>2. ASSUME NEW v \in Version, Ready(v)  PROVE Ready(v)'
      <4>. USE <1>0, <3>2 DEF Ready, folders, TypeOK
      <4>1. ASSUME NEW f \in File, NextFile(f) \/ CleanUp(f)  PROVE Ready(v)'
        BY <4>1 DEF NextFile, CleanUp
      <4>2. CASE DropBackup \/ MoveAsideFails \/ NoMoreFiles \/ ParentStays \/ Killed
        BY <4>2 DEF DropBackup, MoveAsideFails, NoMoreFiles, ParentStays, Killed
      <4>3. CASE MoveAside
        BY <4>3 DEF MoveAside, Moving
      <4>4. CASE MoveIn
        BY <4>4 DEF MoveIn
      <4>5. CASE MoveInFails
        BY <4>5 DEF MoveInFails, Moving
      <4>6. CASE Relaunch
        BY <4>6, ProgramAssumption DEF Relaunch, RemoveAll, Moving
      <4>. QED  BY <1>4, <4>1, <4>2, <4>3, <4>4, <4>5, <4>6 DEF UpdaterStep, UpdateStep
    <3>3. Complete'
      BY <1>0, <2>0, <3>1, <3>2 DEF Ready
    <3>4. CASE pc' = "relaunched"
      <4>1. pc = "cleanUp" /\ UNCHANGED installed
        BY <1>4, <2>2, <3>4 DEF UpdaterStep, UpdateStep, ParentStays, Killed, NextFile, CleanUp,
           DropBackup, MoveAside, MoveAsideFails, MoveIn, MoveInFails, NoMoreFiles, Relaunch, End
      <4>2. \A f \in Program : staged[f] = None
        BY <1>0, <4>1, ProgramAssumption DEF Moving
      <4>. QED  BY <1>0, <2>0, <3>1, <3>3, <4>1, <4>2
    <3>. QED  BY <3>3, <3>4
  <2>. QED  BY <2>1, <2>2
<1>5. CASE UNCHANGED all
  BY <1>0, <1>5 DEF all, folders, process, service
<1>. QED  BY <1>1, <1>2, <1>3, <1>4, <1>5 DEF ServiceNext

LEMMA RisingNext ==
    ~Hasty /\ Inv /\ [ServiceNext]_all => Rising' /\ [~Newer(launched, launched')]_launched
<1>. SUFFICES ASSUME ~Hasty, Inv, [ServiceNext]_all
              PROVE  Rising' /\ [~Newer(launched, launched')]_launched
    OBVIOUS
<1>0. TypeOK /\ Apart /\ Fetched /\ Moving /\ Rising
    BY DEF Inv
<1>. USE NamesAssumption, VersionAssumption, ProgramAssumption DEF Rising, NotBefore
<1>1. CASE ApplyStep
  <2>1. PICK w \in Window :
            \/ Open(w) \/ NothingToDo(w) \/ \E v \in Version : Available(w, v)
            \/ Clear(w) \/ Fetch(w) \/ Receive(w) \/ Rename(w) \/ Verify(w)
            \/ Fail(w) \/ Announce(w) \/ EndsEarly(w)
    BY <1>1 DEF ApplyStep
  <2>2. UNCHANGED <<installed, backup, current, hasBackup, pc, launched>>
    BY <1>1, ApplyLeaves DEF process
  <2>3. staged'[Exe] \in {staged[Exe], None}
    <3>. USE <1>0, <2>1 DEF TypeOK
    <3>1. CASE Open(w) \/ NothingToDo(w) \/ (\E v \in Version : Available(w, v)) \/ Verify(w)
               \/ Announce(w) \/ EndsEarly(w)
      BY <3>1 DEF Open, NothingToDo, Available, Verify, Announce, EndsEarly, folders
    <3>2. CASE Clear(w) \/ Fail(w)
      BY <3>2 DEF Clear, Fail, RemoveStaged, RemoveAll
    <3>3. CASE Fetch(w) \/ Receive(w) \/ Rename(w)
      BY <3>3 DEF Fetch, Receive, Rename
    <3>. QED  BY <3>1, <3>2, <3>3
  <2>4. announced' # None => NotBefore(staged[Archive])'
    <3>. USE <1>0, <2>1, <2>2 DEF TypeOK
    <3>1. CASE Open(w) \/ NothingToDo(w) \/ (\E v \in Version : Available(w, v)) \/ Verify(w)
               \/ EndsEarly(w)
      BY <3>1 DEF Open, NothingToDo, Available, Verify, EndsEarly, folders
    <3>2. CASE Clear(w) \/ Fail(w)
      BY <3>2 DEF Clear, Fail, RemoveStaged, RemoveAll
    <3>3. CASE Fetch(w) \/ Receive(w) \/ Rename(w)
      BY <3>3 DEF Fetch, Receive, Rename, Fetched
    <3>4. CASE Announce(w)
      <4>1. staged[Archive] = release[w] /\ Newer(release[w], runs[w])
        BY <3>4 DEF Announce, Apart, Fetched
      <4>2. release[w] \in Version /\ runs[w] \in Version /\ ~Newer(launched, runs[w])
        BY <3>4 DEF Announce, Apart
      <4>. QED  BY <3>4, <4>1, <4>2, NewerOrder DEF Announce, folders
    <3>. QED  BY <3>1, <3>2, <3>3, <3>4
  <2>. QED  BY <1>0, <2>2, <2>3, <2>4
<1>2. CASE Unpack
  <2>1. NotBefore(staged[Archive]) /\ staged[Archive] # None
    BY <1>0, <1>2 DEF Unpack
  <2>2. /\ staged'[Exe] \in {staged[Exe], staged[Archive]}
        /\ staged'[Archive] \in {staged[Archive], None}
    BY <1>2 DEF Unpack
  <2>3. UNCHANGED <<installed, backup, process, announced>>
    BY <1>2 DEF Unpack
  <2>. QED  BY <1>0, <2>1, <2>2, <2>3 DEF process
<1>3. CASE StartUpdater
  BY <1>0, <1>3 DEF StartUpdater, Begin, folders
<1>4. CASE UpdaterStep
  <2>0. UNCHANGED announced
    BY <1>4 DEF UpdaterStep, service
  <2>. USE <1>0, <2>0 DEF TypeOK, folders, End
  <2>1. ASSUME NEW f \in File, NextFile(f) \/ CleanUp(f)
        PROVE  Rising' /\ launched' = launched
    BY <2>1 DEF NextFile, CleanUp
  <2>2. CASE DropBackup \/ MoveAsideFails \/ NoMoreFiles \/ ParentStays \/ Killed
    BY <2>2 DEF DropBackup, MoveAsideFails, NoMoreFiles, ParentStays, Killed
  <2>3. CASE MoveAside
    BY <2>3 DEF MoveAside
  <2>4. CASE MoveIn
    BY <2>4 DEF MoveIn
  <2>5. CASE MoveInFails
    BY <2>5 DEF MoveInFails
  <2>6. CASE Relaunch
    <3>1. /\ staged'[Exe] = None /\ staged'[Archive] = None
          /\ UNCHANGED installed /\ pc' # "moveIn"
      BY <2>6 DEF Relaunch, RemoveAll, Moving
    <3>2. launched' \in {launched, installed[Exe]} \ {None}
      BY <2>6 DEF Relaunch
    <3>3. installed[Exe] \in Whole
      BY DEF Fetched
    <3>4. launched' \in Version /\ ~Newer(launched, launched') /\ NotBefore(installed[Exe])'
      BY <3>1, <3>2, <3>3, NewerOrder DEF Whole
    <3>. QED  BY <3>1, <3>4
  <2>. QED  BY <1>4, <2>1, <2>2, <2>3, <2>4, <2>5, <2>6 DEF UpdaterStep, UpdateStep
<1>5. CASE UNCHANGED all
  BY <1>0, <1>5 DEF all, folders, process, service
<1>. QED  BY <1>1, <1>2, <1>3, <1>4, <1>5 DEF ServiceNext

-----------------------------------------------------------------------------
(* Theorems *)

LEMMA Invariance == ~Hasty /\ UpdateSpec => []Inv
<1>. SUFFICES ASSUME ~Hasty  PROVE UpdateSpec => []Inv
    OBVIOUS
<1>1. Inv /\ [ServiceNext]_all => Inv'
    BY TypeNext, ApartNext, FetchedNext, MovingNext, KeptNext, CompleteNext, RisingNext DEF Inv
<1>. QED  BY InitInv, <1>1, PTL DEF UpdateSpec

\* One at a time, update and updater never leave an installed file without a
\* whole version of it, however often they fail and are killed.
THEOREM NothingLost == ~Hasty /\ UpdateSpec => []NoProgramFileLost
<1>1. Inv => NoProgramFileLost
    BY NamesAssumption DEF Inv, Kept, Fetched, Whole, NoProgramFileLost
<1>. QED  BY Invariance, <1>1, PTL

\* One at a time, an update that was unpacked with all program files in the
\* staging folder itself can be completed, whatever else lies there.
THEOREM Completable == ~Hasty /\ UpdateSpec => []CanBeCompleted
<1>1. Inv => CanBeCompleted
    BY DEF Inv, Complete, CanBeCompleted
<1>. QED  BY Invariance, <1>1, PTL

\* One at a time, the updater starts the program from such files only whole;
\* what it passes over is none of them.
THEOREM StartsWhole == ~Hasty /\ UpdateSpec => []RelaunchedWhole
<1>1. Inv => RelaunchedWhole
    BY DEF Inv
<1>. QED  BY Invariance, <1>1, PTL

\* One at a time, no chain of updates leads back, whatever the server offers.
THEOREM OnlyForward == ~Hasty /\ UpdateSpec => NoWayBack
<1>. SUFFICES ASSUME ~Hasty  PROVE UpdateSpec => NoWayBack
    OBVIOUS
<1>1. Inv /\ [ServiceNext]_all => [~Newer(launched, launched')]_launched
    BY RisingNext
<1>. QED  BY Invariance, <1>1, PTL DEF UpdateSpec, NoWayBack

=============================================================================
