--------------------------------- MODULE Ota ---------------------------------
(***************************************************************************)
(* Over-the-air updates: OtaUpdater, UpdateChecker, UpdateDownloader and   *)
(* verify_sha256 (src/src/ados/services/ota), called by the updater's own  *)
(* run() loop and by the routes of src/src/ados/api/routes/ota.py, all in  *)
(* one event loop and on one updater object, with no lock between them.    *)
(*                                                                         *)
(* A caller gives the loop away at every await: the release query, the     *)
(* SHA256SUMS query, the response and each chunk of the download, pip and  *)
(* systemctl.  "baton" is the caller that has not reached an await yet.    *)
(*                                                                         *)
(* Version v is the v-th release; its wheel is the chunks 1..Chunks, and   *)
(* is put on the release's page with it or later.  Disk and installed      *)
(* package survive a restart, the updater object does not.                 *)
(***************************************************************************)
EXTENDS Integers, Sequences

CONSTANTS
  MaxVersion,     \* bound: the newest version ever published
  Chunks,         \* a wheel's length
  Callers,        \* subset of {"loop", "api", "api2"}
  ApiCalls,       \* what the API callers ask for
  AutoInstall,    \* config.auto_install
  HonoursRange,   \* the server answers a Range it can serve with 206, always
  MaxCrashes      \* bound: how often the process dies

Version == 1..MaxVersion

ASSUME OtaAssumption ==
  /\ MaxVersion \in Nat \ {0} /\ Chunks \in Nat \ {0} /\ MaxCrashes \in Nat
  /\ Callers \subseteq {"loop", "api", "api2"}
  /\ ApiCalls \subseteq {"check", "install", "restart", "rollback"}
  /\ AutoInstall \in BOOLEAN /\ HonoursRange \in BOOLEAN

VARIABLES
  page,       \* the newest release's page: its version, and is the wheel there?
  installed,  \* the installed package: its version, and is it the true wheel?
  tmp, final, \* per version, the .tmp and the final file: NoFile or chunks
  saved,      \* previous_version in STATE_FILE, 0 for none
  flag,       \* OtaUpdater._state
  current,    \* _current_version
  previous,   \* _previous_version, 0 for none
  pending,    \* _pending_manifest
  path,       \* _downloaded_path, by its version, 0 for ""
  etag,       \* UpdateChecker._etag: the page it was sent with, or NoPage
  cached,     \* UpdateChecker._cached_manifest
  pc,         \* where each caller is
  man,        \* the manifest it works on
  sent,       \* check: the ETag in its query
  seen,       \* check: the current_version it passed; rollback: its target
  from,       \* download: the chunks the .tmp had, then the offset reached
  fd,         \* download: the file it writes ("tmp", "final", "gone"), and how
  baton,      \* the caller that owns the event loop, or "none"
  crashes,    \* how often the process has died
  overlapped  \* history: has a call begun while another was under way?

disk    == <<tmp, final, saved>>
world   == <<page, installed, crashes>>
updater == <<flag, current, previous, pending, path>>
checker == <<etag, cached>>
locals  == <<man, sent, seen, from, fd>>
vars    == <<disk, world, updater, checker, locals, pc, baton, overlapped>>

NoFile == <<0>>
Wheel  == [i \in 1..Chunks |-> i]

NoManifest == [version |-> 0, hashed |-> FALSE]
Manifest   == [version : Version, hashed : BOOLEAN]

NoPage == [version |-> 0, whole |-> FALSE]
Page   == [version : Version, whole : BOOLEAN]

Closed == [on |-> "gone", append |-> FALSE]

Size(f) == IF f = NoFile THEN 0 ELSE Len(f)

-----------------------------------------------------------------------------
At(c, l) == pc[c] = l /\ baton \in {"none", c}

Await(c, l) == pc' = [pc EXCEPT ![c] = l] /\ baton' = "none"

GoOn(c, l) == pc' = [pc EXCEPT ![c] = l] /\ baton' = c

Return(c) == Await(c, "idle")

\* An exception nobody catches: it ends run() for good; a route answers 500.
Raise(c) == Await(c, IF c = "loop" THEN "ended" ELSE "idle")

UnderWay(c) == pc[c] \notin {"idle", "ended"}

\* Nothing keeps a call from beginning while others are at an await.
Begins(c) == overlapped' = (overlapped \/ \E d \in Callers \ {c} : UnderWay(d))

\* Who may ask for what: run() checks; the API routes call one method each.
May(c, call) == IF c = "loop" THEN call = "check" ELSE call \in ApiCalls

Fail(c) == flag' = "failed" /\ Return(c)

-----------------------------------------------------------------------------
(* check() and check_for_update().                                         *)

Check(c) ==
  /\ At(c, "idle") /\ May(c, "check")
  /\ Begins(c)
  /\ flag' = "checking"
  /\ seen' = [seen EXCEPT ![c] = current]
  /\ sent' = [sent EXCEPT ![c] = etag]
  /\ Await(c, "query")
  /\ UNCHANGED <<disk, world, checker, current, previous, pending, path, man,
                 from, fd>>

\* The rest of check(), once check_for_update has returned m.  run() goes on
\* to the download without another await.
Checked(c, m) ==
  /\ flag' = "idle"
  /\ pending' = IF m = NoManifest THEN pending ELSE m
  /\ IF c = "loop" /\ AutoInstall /\ m # NoManifest
     THEN GoOn(c, "download") ELSE Return(c)
  /\ UNCHANGED <<current, previous, path>>

\* 403, or an error of the transfer.
QueryNothing(c) ==
  /\ At(c, "query")
  /\ Checked(c, NoManifest)
  /\ UNCHANGED <<disk, world, checker, locals, overlapped>>

\* A 200 whose body is not the JSON of a release: its ETag, if it has one, is
\* kept, the exception passes through check(), and _state stays "checking".
QueryRaises(c) ==
  /\ At(c, "query")
  /\ etag' \in {etag, page}
  /\ Raise(c)
  /\ UNCHANGED <<disk, world, updater, cached, locals, overlapped>>

\* Slip: "not modified" is taken for "no update".
QueryNotModifiedNothing(c) ==
  /\ At(c, "query") /\ sent[c] = page
  /\ Checked(c, NoManifest)
  /\ UNCHANGED <<disk, world, checker, locals, overlapped>>

\* 304: nothing changed since the response that the ETag it sent came with.
QueryNotModified(c) ==
  /\ At(c, "query") /\ sent[c] = page
  /\ Checked(c, IF cached.version > seen[c] THEN cached ELSE NoManifest)
  /\ UNCHANGED <<disk, world, checker, locals, overlapped>>

\* 200: the ETag is kept before the release is looked at.  A release that is
\* no newer, or has no wheel yet, is no update.
QueryAnswered(c) ==
  /\ At(c, "query") /\ sent[c] # page
  /\ etag' = page
  /\ IF page.version > seen[c] /\ page.whole
     THEN /\ man' = [man EXCEPT ![c] = [version |-> page.version, hashed |-> FALSE]]
          /\ Await(c, "sums")
          /\ UNCHANGED updater
     ELSE Checked(c, NoManifest) /\ UNCHANGED man
  /\ UNCHANGED <<disk, world, cached, sent, seen, from, fd, overlapped>>

\* _fetch_sha256 finds the digest, or fails and leaves the manifest without.
SumsAnswered(c) ==
  /\ At(c, "sums")
  /\ \E ok \in BOOLEAN :
       LET m == [man[c] EXCEPT !.hashed = ok]
       IN cached' = m /\ Checked(c, m)
  /\ UNCHANGED <<disk, world, etag, locals, overlapped>>

-----------------------------------------------------------------------------
(* download_and_verify() and UpdateDownloader.download().                  *)

BeginDownload(c) ==
  /\ \/ At(c, "download")
     \/ At(c, "idle") /\ c # "loop" /\ May(c, "install")
  /\ Begins(c)
  /\ IF pending = NoManifest
     THEN Return(c) /\ UNCHANGED <<flag, man, from>>
     ELSE /\ flag' = "downloading"
          /\ man' = [man EXCEPT ![c] = pending]
          /\ from' = [from EXCEPT ![c] = Size(tmp[pending.version])]
          /\ Await(c, "get")
  /\ UNCHANGED <<disk, world, checker, current, previous, pending, path, sent,
                 seen, fd>>

\* An HTTP or OS error in the transfer, or in the rename after it: the .tmp
\* stays.
DownloadError(c) ==
  /\ At(c, "get") \/ At(c, "stream")
  /\ Fail(c)
  /\ UNCHANGED <<disk, world, checker, current, previous, pending, path,
                 locals, overlapped>>

\* Slip: appends to the .tmp though the answer was 200, the
\* whole file.
ResponseAppended(c) ==
  LET v == man[c].version IN
  /\ At(c, "get") /\ from[c] < Chunks
  /\ \E partial \in BOOLEAN :
       LET resume == from[c] > 0 IN
       /\ from' = [from EXCEPT ![c] = IF partial THEN @ ELSE 0]
       /\ tmp' = [tmp EXCEPT ![v] = IF resume /\ @ # NoFile THEN @ ELSE <<>>]
       /\ fd' = [fd EXCEPT ![c] = [on |-> "tmp", append |-> resume]]
  /\ Await(c, "stream")
  /\ UNCHANGED <<final, saved, world, updater, checker, man, sent, seen,
                 overlapped>>

\* 206, or 200: the .tmp is opened "ab" after existing bytes, else "wb".  A
\* Range that starts at or after the end is answered 416: a DownloadError.
Response(c) ==
  LET v == man[c].version IN
  /\ At(c, "get") /\ from[c] < Chunks
  /\ \E partial \in IF HonoursRange THEN {TRUE} ELSE BOOLEAN :
       LET resume == partial /\ from[c] > 0 IN
       /\ from' = [from EXCEPT ![c] = IF resume THEN @ ELSE 0]
       /\ tmp' = [tmp EXCEPT ![v] = IF resume /\ @ # NoFile THEN @ ELSE <<>>]
       /\ fd' = [fd EXCEPT ![c] = [on |-> "tmp", append |-> resume]]
  /\ Await(c, "stream")
  /\ UNCHANGED <<final, saved, world, updater, checker, man, sent, seen,
                 overlapped>>

\* f after x was written at position i, past zeros if f is shorter.
WriteAt(f, i, x) ==
  [j \in 1..(IF i > Len(f) THEN i ELSE Len(f)) |->
     IF j = i THEN x ELSE IF j <= Len(f) THEN f[j] ELSE 0]

\* The file follows the descriptor: another caller may have renamed it.
Chunk(c) ==
  LET v == man[c].version
      i == from[c] + 1
      Write(f) == IF fd[c].append THEN Append(f, i) ELSE WriteAt(f, i, i) IN
  /\ At(c, "stream") /\ from[c] < Chunks
  /\ from' = [from EXCEPT ![c] = i]
  /\ tmp' = IF fd[c].on = "tmp" THEN [tmp EXCEPT ![v] = Write(@)] ELSE tmp
  /\ final' = IF fd[c].on = "final" THEN [final EXCEPT ![v] = Write(@)] ELSE final
  /\ Await(c, "stream")
  /\ UNCHANGED <<saved, world, updater, checker, man, sent, seen, fd,
                 overlapped>>

\* Where descriptors on v's files point once c has renamed the .tmp to become
\* the final file, and once it has unlinked the final file.
Renamed(c, v) ==
  [d \in Callers |-> IF d = c \/ pc[d] # "stream" \/ man[d].version # v THEN fd[d]
                     ELSE [fd[d] EXCEPT !.on = IF @ = "tmp" THEN "final" ELSE "gone"]]

Unlinked(open, v) ==
  [d \in Callers |-> IF man[d].version = v /\ open[d].on = "final"
                     THEN [open[d] EXCEPT !.on = "gone"] ELSE open[d]]

\* os.replace, verify_sha256, and on to install() without an await.
Downloaded(c) ==
  LET v == man[c].version
      bad == man[c].hashed /\ tmp[v] # Wheel IN
  /\ At(c, "stream") /\ from[c] = Chunks
  /\ IF tmp[v] = NoFile                 \* somebody else renamed it
     THEN Fail(c) /\ UNCHANGED <<tmp, final, fd, path>>
     ELSE /\ tmp' = [tmp EXCEPT ![v] = NoFile]
          /\ final' = [final EXCEPT ![v] = IF bad THEN NoFile ELSE tmp[v]]
          /\ fd' = IF bad THEN Unlinked(Renamed(c, v), v) ELSE Renamed(c, v)
          /\ IF bad THEN Fail(c) /\ UNCHANGED path
                    ELSE /\ path' = v
                         /\ flag' = "idle"
                         /\ GoOn(c, "install")
  /\ UNCHANGED <<saved, world, current, previous, pending, checker, man, sent,
                 seen, from, overlapped>>

-----------------------------------------------------------------------------
(* install().                                                              *)

\* Slip: the version to come back to is not saved.
BeginInstallUnsaved(c) ==
  /\ At(c, "install")
  /\ IF path = 0 \/ pending = NoManifest
     THEN Return(c) /\ UNCHANGED <<flag, man>>
     ELSE /\ flag' = "installing"
          /\ man' = [man EXCEPT ![c] = pending]
          /\ Await(c, "pip")
  /\ UNCHANGED <<disk, world, checker, current, previous, pending, path, sent,
                 seen, from, fd, overlapped>>

\* _save_state is not in the try: when it cannot write, the old file or an
\* empty one is left, _state stays "installing" and the exception goes on.
BeginInstall(c) ==
  /\ At(c, "install")
  /\ \/ /\ path = 0 \/ pending = NoManifest
        /\ Return(c)
        /\ UNCHANGED <<flag, man, saved>>
     \/ /\ path # 0 /\ pending # NoManifest
        /\ flag' = "installing"
        /\ man' = [man EXCEPT ![c] = pending]
        /\ \/ saved' = current /\ Await(c, "pip")
           \/ saved' \in {saved, 0} /\ Raise(c)
  /\ UNCHANGED <<tmp, final, world, checker, current, previous, pending, path,
                 sent, seen, from, fd, overlapped>>

\* pip, in a thread: it reads _downloaded_path when it runs.
PipInstalls(c) ==
  /\ At(c, "pip")
  /\ path # 0 /\ final[path] # NoFile
  /\ installed' = [version |-> path, intact |-> final[path] = Wheel]
  /\ pc' = [pc EXCEPT ![c] = "piped"]
  /\ UNCHANGED <<disk, page, crashes, updater, checker, locals, baton,
                 overlapped>>

\* A nonzero return code, a timeout or an OSError, back in the event loop.
PipFails(c) ==
  /\ At(c, "pip") \/ At(c, "rollpip")
  /\ Fail(c)
  /\ UNCHANGED <<disk, world, checker, current, previous, pending, path,
                 locals, overlapped>>

\* install() after pip has succeeded: the wheel goes, the version is recorded.
Installed(c) ==
  /\ At(c, "piped")
  /\ final' = IF path = 0 THEN final ELSE [final EXCEPT ![path] = NoFile]
  /\ fd' = IF path = 0 THEN fd ELSE Unlinked(fd, path)
  /\ previous' = current
  /\ current' = man[c].version
  /\ path' = 0
  /\ pending' = NoManifest
  /\ flag' = "idle"
  /\ IF c = "loop" THEN GoOn(c, "restart") ELSE Return(c)
  /\ UNCHANGED <<tmp, saved, world, checker, man, sent, seen, from,
                 overlapped>>

-----------------------------------------------------------------------------
(* rollback() and restart_service().                                       *)

\* Slip: nothing asks whether there is a previous version.
BeginRollbackUnchecked(c) ==
  /\ At(c, "idle") /\ May(c, "rollback")
  /\ Begins(c)
  /\ flag' = "installing"
  /\ seen' = [seen EXCEPT ![c] = previous]
  /\ Await(c, "rollpip")
  /\ UNCHANGED <<disk, world, checker, current, previous, pending, path, man,
                 sent, from, fd>>

BeginRollback(c) ==
  /\ At(c, "idle") /\ May(c, "rollback")
  /\ Begins(c)
  /\ IF previous = 0
     THEN Return(c) /\ UNCHANGED <<flag, seen>>
     ELSE /\ flag' = "installing"
          /\ seen' = [seen EXCEPT ![c] = previous]
          /\ Await(c, "rollpip")
  /\ UNCHANGED <<disk, world, checker, current, previous, pending, path, man,
                 sent, from, fd>>

PipRollsBack(c) ==
  /\ At(c, "rollpip")
  /\ installed' = [version |-> seen[c], intact |-> TRUE]
  /\ pc' = [pc EXCEPT ![c] = "rolled"]
  /\ UNCHANGED <<disk, page, crashes, updater, checker, locals, baton,
                 overlapped>>

RolledBack(c) ==
  /\ At(c, "rolled")
  /\ previous' = current
  /\ current' = seen[c]
  /\ flag' = "idle"
  /\ GoOn(c, "restart")
  /\ UNCHANGED <<disk, world, checker, pending, path, locals, overlapped>>

BeginRestart(c) ==
  /\ \/ At(c, "restart")
     \/ At(c, "idle") /\ c # "loop" /\ May(c, "restart")
  /\ Begins(c)
  /\ flag' = "restarting"
  /\ Await(c, "systemctl")
  /\ UNCHANGED <<disk, world, checker, current, previous, pending, path,
                 locals>>

RestartFails(c) ==
  /\ At(c, "systemctl")
  /\ Return(c)
  /\ UNCHANGED <<disk, world, updater, checker, locals, overlapped>>

\* The process is gone; __init__ of the next one over the same disk, where its
\* state file says s.
NewProcess(s) ==
  /\ saved' = s
  /\ flag' = "idle"
  /\ current' = installed.version
  /\ previous' = s
  /\ pending' = NoManifest
  /\ path' = 0
  /\ etag' = NoPage /\ cached' = NoManifest
  /\ pc' = [c \in Callers |-> "idle"]
  /\ man' = [c \in Callers |-> NoManifest]
  /\ sent' = [c \in Callers |-> NoPage]
  /\ seen' = [c \in Callers |-> 0]
  /\ from' = [c \in Callers |-> 0]
  /\ fd' = [c \in Callers |-> Closed]
  /\ baton' = "none"
  /\ UNCHANGED <<tmp, final, page, installed, overlapped>>

Restarts(c) == At(c, "systemctl") /\ NewProcess(saved) /\ UNCHANGED crashes

\* A death in the middle of install()'s _save_state leaves half a file, which
\* _load_previous_version takes for none.
Crash ==
  /\ crashes < MaxCrashes /\ crashes' = crashes + 1
  /\ \/ NewProcess(saved)
     \/ /\ \E c \in Callers : At(c, "install")
        /\ path # 0 /\ pending # NoManifest
        /\ NewProcess(0)

\* A release is created with its wheel, or before it is uploaded.
Publish ==
  /\ page.version < MaxVersion
  /\ \E whole \in BOOLEAN : page' = [version |-> page.version + 1, whole |-> whole]
  /\ UNCHANGED <<disk, installed, crashes, updater, checker, locals, pc, baton,
                 overlapped>>

Upload ==
  /\ ~page.whole
  /\ page' = [page EXCEPT !.whole = TRUE]
  /\ UNCHANGED <<disk, installed, crashes, updater, checker, locals, pc, baton,
                 overlapped>>

Init ==
  /\ page = [version |-> 1, whole |-> TRUE]
  /\ installed = [version |-> 1, intact |-> TRUE]
  /\ tmp = [v \in Version |-> NoFile]
  /\ final = [v \in Version |-> NoFile]
  /\ saved = 0
  /\ flag = "idle"
  /\ current = 1
  /\ previous = 0
  /\ pending = NoManifest
  /\ path = 0
  /\ etag = NoPage /\ cached = NoManifest
  /\ pc = [c \in Callers |-> "idle"]
  /\ man = [c \in Callers |-> NoManifest]
  /\ sent = [c \in Callers |-> NoPage]
  /\ seen = [c \in Callers |-> 0]
  /\ from = [c \in Callers |-> 0]
  /\ fd = [c \in Callers |-> Closed]
  /\ baton = "none"
  /\ crashes = 0
  /\ overlapped = FALSE

Call(c) ==
  /\ At(c, "idle")
  /\ Check(c) \/ BeginDownload(c) \/ BeginRollback(c) \/ BeginRestart(c)

Step(c) ==
  \/ QueryNothing(c) \/ QueryRaises(c) \/ QueryNotModified(c)
  \/ QueryAnswered(c) \/ SumsAnswered(c)
  \/ At(c, "download") /\ BeginDownload(c)
  \/ DownloadError(c) \/ Response(c) \/ Chunk(c) \/ Downloaded(c)
  \/ BeginInstall(c) \/ PipInstalls(c) \/ PipFails(c) \/ Installed(c)
  \/ PipRollsBack(c) \/ RolledBack(c)
  \/ At(c, "restart") /\ BeginRestart(c)
  \/ RestartFails(c) \/ Restarts(c)

Next == \/ Publish \/ Upload \/ Crash
        \/ \E c \in Callers : Call(c) \/ Step(c)

Spec == Init /\ [][Next]_vars

\* Every await ends; run() checks again and again; and what can succeed again
\* and again does: the query, the download, pip, systemctl.
Fairness ==
  /\ WF_vars(Check("loop"))
  /\ \A c \in Callers :
       /\ WF_vars(Step(c))
       /\ SF_vars(QueryNotModified(c)) /\ SF_vars(QueryAnswered(c))
       /\ SF_vars(Response(c)) /\ SF_vars(Chunk(c)) /\ SF_vars(Downloaded(c))
       /\ SF_vars(PipInstalls(c)) /\ SF_vars(Restarts(c))

FairSpec == Spec /\ Fairness
-----------------------------------------------------------------------------
(* Properties.                                                             *)

Label == {"idle", "query", "sums", "download", "get", "stream", "install",
          "pip", "piped", "rollpip", "rolled", "restart", "systemctl", "ended"}

File == {NoFile} \cup UNION {[1..n -> 0..Chunks] : n \in 0..(3 * Chunks)}

\* Every variable holds what the code can put there: in particular no file is
\* longer than three wheels, however many callers append to it.
TypeOK ==
  /\ page \in Page
  /\ installed \in [version : Version, intact : BOOLEAN]
  /\ tmp \in [Version -> File] /\ final \in [Version -> File]
  /\ saved \in 0..MaxVersion
  /\ flag \in {"idle", "checking", "downloading", "installing", "restarting",
               "failed"}
  /\ current \in Version /\ previous \in 0..MaxVersion
  /\ pending \in Manifest \cup {NoManifest}
  /\ path \in 0..MaxVersion
  /\ etag \in Page \cup {NoPage}
  /\ cached \in Manifest \cup {NoManifest}
  /\ pc \in [Callers -> Label]
  /\ man \in [Callers -> Manifest \cup {NoManifest}]
  /\ sent \in [Callers -> Page \cup {NoPage}]
  /\ seen \in [Callers -> 0..MaxVersion]
  /\ from \in [Callers -> 0..(3 * Chunks)]
  /\ fd \in [Callers -> [on : {"tmp", "final", "gone"}, append : BOOLEAN]]
  /\ baton \in Callers \cup {"none"}
  /\ crashes \in 0..MaxCrashes
  /\ overlapped \in BOOLEAN

\* The runs look at the behaviours in which no call begins while another is
\* under way, and the properties promise nothing after one has.
Apart == ~overlapped

Changing(c) == pc[c] \in {"piped", "rolled"}

\* As long as no two calls were under way at once: what GET /ota calls the
\* current version is the installed one, whenever no call is between its pip
\* and the line that records it (install, rollback).
CurrentIsInstalled ==
  Apart /\ (\A c \in Callers : ~Changing(c)) => current = installed.version

\* The package is changed and recorded in turns, an install never goes back, and
\* the version to come back to was saved before, through failures, uncaught
\* exceptions and restarts; after two calls under way at once, nothing is sure.
Promise == INSTANCE Update
             WITH released <- page.version, package <- installed.version,
                  shown <- current, before <- previous,
                  half <- \E c \in Callers : Changing(c), lost <- overlapped
UpdateImplemented == Promise!Spec

\* As long as no two calls were under way at once: however often the process
\* dies or a transfer breaks, what resumed downloads put together and pip
\* installed is the wheel that was published.
InstalledIntact == Apart => installed.intact

\* With auto_install a release that has its wheel is installed sooner or later,
\* however transfers, pip and systemctl fail, unless a newer release comes,
\* or one of two things happens after which it never is in this process: an
\* exception nobody catches ends run(), or a rename fails and leaves the whole
\* .tmp, whose Range no server can serve.
UpdateArrives ==
  \A v \in Version :
    (page = [version |-> v, whole |-> TRUE])
      ~> \/ installed.version >= v \/ page.version > v
         \/ pc["loop"] = "ended"   \/ Size(tmp[v]) = Chunks
=============================================================================
