------------------------------- MODULE OtaProofs -------------------------------
(* What Ota guarantees, whatever the releases, the callers, the server's     *)
(* answers and the crashes are: its types however the calls overlap, and, as *)
(* long as none have, the versions, the wheels and the promise of Update.    *)
EXTENDS Ota, SequenceTheorems, TLAPS

\* The first k chunks of a wheel.
First(k) == [i \in 1..k |-> i]

Begun == {NoFile} \cup {First(k) : k \in 0..Chunks}

Types ==
  /\ page \in Page
  /\ installed \in [version : Version, intact : BOOLEAN]
  /\ tmp \in [Version -> Begun] /\ final \in [Version -> {NoFile, Wheel}]
  /\ saved \in 0..MaxVersion
  /\ flag \in {"idle", "checking", "downloading", "installing", "restarting",
               "failed"}
  /\ current \in Version /\ previous \in 0..MaxVersion
  /\ pending \in Manifest \cup {NoManifest}
  /\ path \in 0..MaxVersion
  /\ etag \in Page \cup {NoPage}
  /\ cached \in Manifest \cup {NoManifest}
  /\ pc \in [Callers -> Label]
  /\ man \in [Callers -> Manifest \cup {NoManifest}]
  /\ sent \in [Callers -> Page \cup {NoPage}]
  /\ seen \in [Callers -> 0..MaxVersion]
  /\ from \in [Callers -> 0..Chunks]
  /\ fd \in [Callers -> [on : {"tmp", "final", "gone"}, append : BOOLEAN]]
  /\ baton \in Callers \cup {"none"}
  /\ crashes \in 0..MaxCrashes
  /\ overlapped \in BOOLEAN

\* At most one call is under way.
OneBusy == \A c, d \in Callers : pc[c] \notin {"idle", "ended"} /\ pc[d] \notin {"idle", "ended"} => c = d

(* What a caller has in hand: from the download to the record of the version *)
(* it is the pending release, the .tmp has what its offset says, and what    *)
(* pip was given is what will be recorded.                                   *)
Holds(c) ==
  /\ pc[c] = "sums" => man[c] \in Manifest
  /\ pc[c] \in {"get", "stream", "install", "pip", "piped"}
       => man[c] = pending /\ man[c] \in Manifest
  /\ pc[c] = "get" => from[c] = Size(tmp[man[c].version])
  /\ pc[c] = "stream" => tmp[man[c].version] = First(from[c]) /\ fd[c].on = "tmp"
  /\ pc[c] \in {"install", "pip", "piped"} => path = man[c].version
  /\ pc[c] = "piped" => installed.version = man[c].version
  /\ pc[c] \in {"rollpip", "rolled"} => seen[c] \in Version
  /\ pc[c] = "rolled" => installed.version = seen[c]

Recorded == (\A c \in Callers : ~Changing(c)) => current = installed.version

IInv ==
  /\ overlapped = FALSE
  /\ Types /\ OneBusy /\ \A c \in Callers : Holds(c)
  /\ Recorded /\ installed.intact

-----------------------------------------------------------------------------
(* Files.                                                                    *)

\* A wheel grows by one chunk at its end, appended or written at its place.
LEMMA Grows ==
  ASSUME NEW k \in Nat
  PROVE  /\ First(k) \in Seq(Nat) /\ Len(First(k)) = k
         /\ First(k) # NoFile
         /\ Size(First(k)) = k
         /\ Append(First(k), k + 1) = First(k + 1)
         /\ WriteAt(First(k), k + 1, k + 1) = First(k + 1)
<1>1. First(k) \in Seq(Nat) /\ Len(First(k)) = k
  BY DEF First
<1>2. First(k) # NoFile
  <2>1. SUFFICES ASSUME First(k) = NoFile PROVE FALSE
    OBVIOUS
  <2>2. Len(NoFile) = 1 /\ NoFile[1] = 0
    BY DEF NoFile
  <2>3. Len(First(k)) = 1 /\ First(k)[1] = 0
    BY <2>1, <2>2, Zenon
  <2>4. k = 1
    BY <1>1, <2>3
  <2>5. First(k)[1] = 1
    BY <2>4 DEF First
  <2>6. QED  BY <2>3, <2>5
<1>3. Append(First(k), k + 1) = First(k + 1)
  <2>1. Append(First(k), k + 1) = [i \in 1..(k + 1) |-> IF i = k + 1 THEN k + 1 ELSE First(k)[i]]
    BY <1>1
  <2>2. QED  BY <2>1 DEF First
<1>4. WriteAt(First(k), k + 1, k + 1) = First(k + 1)
  <2>1. WriteAt(First(k), k + 1, k + 1)
          = [j \in 1..(k + 1) |-> IF j = k + 1 THEN k + 1
                                  ELSE IF j <= k THEN First(k)[j] ELSE 0]
    BY <1>1 DEF WriteAt
  <2>2. QED  BY <2>1 DEF First
<1>5. QED  BY <1>1, <1>2, <1>3, <1>4 DEF Size

\* What has begun is of the size of a wheel at most.
LEMMA BegunSize ==
  ASSUME NEW f \in Begun
  PROVE  /\ Size(f) \in 0..Chunks
         /\ Size(f) > 0 => f # NoFile
         /\ f # NoFile => f = First(Size(f))
<1>1. CASE f = NoFile
  BY <1>1, OtaAssumption DEF OtaAssumption, Size
<1>2. CASE f # NoFile
  <2>1. PICK k \in 0..Chunks : f = First(k)
    BY <1>2 DEF Begun
  <2>2. k \in Nat
    BY <2>1, OtaAssumption DEF OtaAssumption
  <2>3. QED  BY <1>2, <2>1, <2>2, Grows
<1>3. QED  BY <1>1, <1>2

\* The two ends of a transfer.
LEMMA Ends == <<>> = First(0) /\ <<>> \in Begun /\ Wheel = First(Chunks) /\ NoFile # Wheel
<1>1. Chunks \in Nat /\ 0 \in 0..Chunks
  BY OtaAssumption DEF OtaAssumption
<1>2. First(0) = <<>>
  BY DEF First
<1>3. Wheel = First(Chunks)
  BY DEF Wheel, First
<1>4. QED  BY <1>1, <1>2, <1>3, Grows DEF Begun

-----------------------------------------------------------------------------
(* A step of c among its labels leaves the others idle.                      *)

LEMMA OthersIdle ==
  ASSUME IInv, NEW c \in Callers, NEW l \in Label, pc[c] \notin {"idle", "ended"} \/ \A d \in Callers : pc[d] \in {"idle", "ended"},
         pc' = [pc EXCEPT ![c] = l]
  PROVE  /\ pc' \in [Callers -> Label] /\ pc'[c] = l
         /\ \A d \in Callers : d # c => pc[d] \in {"idle", "ended"} /\ pc'[d] \in {"idle", "ended"}
         /\ OneBusy'
<1>1. pc \in [Callers -> Label] /\ OneBusy
  BY DEF IInv, Types
<1>2. \A d \in Callers : d # c => pc[d] \in {"idle", "ended"}
  BY <1>1 DEF OneBusy
<1>3. QED  BY <1>1, <1>2 DEF OneBusy

\* A step that neither begins nor ends between pip and its record, and leaves
\* the package and the version shown alone.
LEMMA Aside ==
  ASSUME IInv, NEW c \in Callers, NEW l \in Label \ {"piped", "rolled"},
         pc[c] \notin {"idle", "ended"} \/ \A d \in Callers : pc[d] \in {"idle", "ended"},
         pc[c] \notin {"piped", "rolled"}, pc' = [pc EXCEPT ![c] = l],
         UNCHANGED <<installed, current>>, overlapped' = FALSE, Types', Holds(c)'
  PROVE  IInv'
<1>1. /\ pc'[c] = l /\ OneBusy'
      /\ \A d \in Callers : d # c => pc[d] \in {"idle", "ended"} /\ pc'[d] \in {"idle", "ended"}
  BY OthersIdle
<1>2. \A d \in Callers : ~Changing(d) /\ pc'[d] \notin {"piped", "rolled"}
  BY <1>1 DEF Changing
<1>3. Recorded' /\ installed'.intact
  BY <1>2 DEF IInv, Recorded
<1>4. \A d \in Callers : Holds(d)'
  BY <1>1 DEF Holds
<1>5. QED  BY <1>1, <1>3, <1>4 DEF IInv

-----------------------------------------------------------------------------
(* The actions.                                                              *)

\* The rest of check().
LEMMA CheckedStep ==
  ASSUME IInv, overlapped' = FALSE, NEW c \in Callers, pc[c] \in {"query", "sums"},
         NEW m \in Manifest \cup {NoManifest}, Checked(c, m),
         etag' \in Page \cup {NoPage}, cached' \in Manifest \cup {NoManifest},
         UNCHANGED <<disk, world, locals>>
  PROVE  IInv'
<1>1. PICK l \in {"idle", "download"} : pc' = [pc EXCEPT ![c] = l]
  BY DEF Checked, GoOn, Return, Await
<1>2. pending' \in Manifest \cup {NoManifest}
  BY DEF Checked, IInv, Types
<1>3. baton' \in Callers \cup {"none"}
  BY DEF Checked, GoOn, Return, Await
<1>4. pc' \in [Callers -> Label] /\ pc'[c] = l
  BY <1>1 DEF IInv, Types, Label
<1>5. Types'
  BY <1>2, <1>3, <1>4 DEF IInv, Types, Checked, disk, world, locals
<1>6. Holds(c)'
  BY <1>1, <1>4 DEF Holds
<1>7. QED
  BY <1>1, <1>5, <1>6, Aside DEF Label, Checked, world

LEMMA CheckStep == ASSUME IInv, overlapped' = FALSE, NEW c \in Callers, Check(c),
                          \A d \in Callers : pc[d] \in {"idle", "ended"}
                   PROVE  IInv'
<1>1. pc' = [pc EXCEPT ![c] = "query"] /\ baton' = "none"
  BY DEF Check, Await
<1>2. pc' \in [Callers -> Label] /\ pc'[c] = "query"
  BY <1>1 DEF IInv, Types, Label
<1>4. Types'
  <2>1. sent' \in [Callers -> Page \cup {NoPage}]
    BY DEF IInv, Types, Check
  <2>2. seen' \in [Callers -> 0..MaxVersion]
    BY DEF IInv, Types, Check, Version
  <2>3. QED
    BY <1>1, <1>2, <2>1, <2>2 DEF IInv, Types, Check, disk, world, checker
<1>5. Holds(c)'
  BY <1>2 DEF Holds
<1>6. QED
  BY <1>1, <1>4, <1>5, Aside DEF Label, Check, world

LEMMA QueryAnsweredStep ==
  ASSUME IInv, overlapped' = FALSE, NEW c \in Callers, QueryAnswered(c) PROVE IInv'
<1>1. pc[c] = "query" /\ etag' = page /\ page \in Page
  BY DEF QueryAnswered, At, IInv, Types
<1>2. CASE page.version > seen[c] /\ page.whole
  <2>1. /\ pc' = [pc EXCEPT ![c] = "sums"] /\ baton' = "none"
        /\ man' = [man EXCEPT ![c] = [version |-> page.version, hashed |-> FALSE]]
        /\ UNCHANGED <<updater, disk, world, cached, sent, seen, from, fd>>
    BY <1>2 DEF QueryAnswered, Await
  <2>2. pc' \in [Callers -> Label] /\ pc'[c] = "sums"
    BY <2>1 DEF IInv, Types, Label
  <2>3. /\ man' \in [Callers -> Manifest \cup {NoManifest}]
        /\ man'[c] \in Manifest
    BY <2>1 DEF IInv, Types, Manifest, Page
  <2>4. Types'
    BY <1>1, <2>1, <2>2, <2>3 DEF IInv, Types, updater, disk, world
  <2>5. Holds(c)'
    BY <2>2, <2>3 DEF Holds
  <2>6. QED
    BY <1>1, <2>1, <2>4, <2>5, Aside DEF Label, world, updater
<1>3. CASE ~(page.version > seen[c] /\ page.whole)
  BY <1>1, <1>3, CheckedStep DEF QueryAnswered, locals, IInv, Types
<1>4. QED  BY <1>2, <1>3

LEMMA SumsAnsweredStep ==
  ASSUME IInv, overlapped' = FALSE, NEW c \in Callers, SumsAnswered(c) PROVE IInv'
<1>1. pc[c] = "sums" /\ man[c] \in Manifest
  BY DEF SumsAnswered, At, IInv, Holds
<1>2. PICK ok \in BOOLEAN : /\ cached' = [man[c] EXCEPT !.hashed = ok]
                           /\ Checked(c, [man[c] EXCEPT !.hashed = ok])
  BY DEF SumsAnswered
<1>3. [man[c] EXCEPT !.hashed = ok] \in Manifest
  BY <1>1 DEF Manifest
<1>4. QED
  BY <1>1, <1>2, <1>3, CheckedStep DEF SumsAnswered, IInv, Types

LEMMA QueryStep ==
  ASSUME IInv, overlapped' = FALSE, NEW c \in Callers, QueryNothing(c) \/ QueryNotModified(c)
  PROVE  IInv'
<1>1. pc[c] = "query"
  BY DEF QueryNothing, QueryNotModified, At
<1>2. PICK m \in Manifest \cup {NoManifest} : Checked(c, m)
  BY DEF QueryNothing, QueryNotModified, IInv, Types
<1>3. QED
  BY <1>1, <1>2, CheckedStep
     DEF QueryNothing, QueryNotModified, checker, IInv, Types

\* An exception nobody catches, with what the caller left behind.
LEMMA RaiseStep ==
  ASSUME IInv, overlapped' = FALSE, NEW c \in Callers, pc[c] \in {"query", "install"},
         Raise(c), Types', UNCHANGED <<installed, current>>
  PROVE  IInv'
<1>1. PICK l \in {"idle", "ended"} : pc' = [pc EXCEPT ![c] = l]
  BY DEF Raise, Await
<1>2. pc'[c] = l
  BY <1>1 DEF IInv, Types
<1>3. Holds(c)'
  BY <1>2 DEF Holds
<1>4. QED  BY <1>1, <1>3, Aside DEF Label

LEMMA QueryRaisesStep ==
  ASSUME IInv, overlapped' = FALSE, NEW c \in Callers, QueryRaises(c) PROVE IInv'
<1>1. /\ pc[c] = "query" /\ Raise(c) /\ etag' \in {etag, page}
      /\ UNCHANGED <<disk, world, updater, cached, locals>>
  BY DEF QueryRaises, At
<1>2. pc' \in [Callers -> Label] /\ baton' \in Callers \cup {"none"}
  BY <1>1 DEF IInv, Types, Label, Raise, Await
<1>3. Types'
  BY <1>1, <1>2 DEF IInv, Types, disk, world, updater, locals
<1>4. QED  BY <1>1, <1>3, RaiseStep DEF updater, world

LEMMA BeginDownloadStep ==
  ASSUME IInv, overlapped' = FALSE, NEW c \in Callers, BeginDownload(c),
         pc[c] = "download" \/ \A d \in Callers : pc[d] \in {"idle", "ended"}
  PROVE  IInv'
<1>0. pc[c] \in {"download", "idle"}
  BY DEF BeginDownload, At
<1>1. CASE pending = NoManifest
  <2>1. pc' = [pc EXCEPT ![c] = "idle"] /\ baton' = "none"
    BY <1>1 DEF BeginDownload, Return, Await
  <2>2. pc' \in [Callers -> Label] /\ pc'[c] = "idle"
    BY <2>1 DEF IInv, Types, Label
  <2>3. Types'
    BY <1>1, <2>1, <2>2 DEF BeginDownload, IInv, Types, disk, world, checker
  <2>4. Holds(c)'
    BY <2>2 DEF Holds
  <2>5. QED
    BY <1>0, <2>1, <2>3, <2>4, Aside DEF Label, BeginDownload, world
<1>2. CASE pending # NoManifest
  <2>1. /\ pc' = [pc EXCEPT ![c] = "get"] /\ baton' = "none"
        /\ man' = [man EXCEPT ![c] = pending]
        /\ from' = [from EXCEPT ![c] = Size(tmp[pending.version])]
        /\ UNCHANGED <<disk, world, pending>>
    BY <1>2 DEF BeginDownload, Await
  <2>2. pending \in Manifest /\ pending.version \in Version
    BY <1>2 DEF IInv, Types, Manifest
  <2>3. pc' \in [Callers -> Label] /\ pc'[c] = "get"
    BY <2>1 DEF IInv, Types, Label
  <2>4. man' \in [Callers -> Manifest \cup {NoManifest}] /\ man'[c] = pending
    BY <2>1, <2>2 DEF IInv, Types
  <2>5. /\ from' \in [Callers -> 0..Chunks]
        /\ from'[c] = Size(tmp[pending.version])
    <3>1. tmp[pending.version] \in Begun
      BY <2>2 DEF IInv, Types
    <3>2. QED  BY <2>1, <3>1, BegunSize DEF IInv, Types
  <2>6. Types'
    BY <1>2, <2>1, <2>3, <2>4, <2>5 DEF BeginDownload, IInv, Types, disk, world, checker
  <2>7. Holds(c)'
    BY <2>1, <2>2, <2>3, <2>4, <2>5 DEF Holds, disk
  <2>8. QED
    BY <1>0, <2>1, <2>6, <2>7, Aside DEF Label, BeginDownload, world
<1>3. QED  BY <1>1, <1>2

\* A call that fails at an await.
LEMMA FailStep ==
  ASSUME IInv, overlapped' = FALSE, NEW c \in Callers, pc[c] \in {"get", "stream", "pip", "rollpip"},
         Fail(c),
         UNCHANGED <<world, checker, current, previous, pending, man, sent, seen, from, fd,
                     saved, path>>,
         tmp' \in [Version -> Begun], final' \in [Version -> {NoFile, Wheel}]
  PROVE  IInv'
<1>1. /\ pc' = [pc EXCEPT ![c] = "idle"] /\ baton' = "none"
      /\ flag' = "failed"
  BY DEF Fail, Return, Await
<1>2. pc' \in [Callers -> Label] /\ pc'[c] = "idle"
  BY <1>1 DEF IInv, Types, Label
<1>3. Types'
  BY <1>1, <1>2 DEF IInv, Types, world, checker
<1>4. Holds(c)'
  BY <1>2 DEF Holds
<1>5. QED
  BY <1>1, <1>3, <1>4, Aside DEF Label, world

LEMMA ResponseStep == ASSUME IInv, overlapped' = FALSE, NEW c \in Callers, Response(c) PROVE IInv'
<1> DEFINE v == man[c].version
<1>1. PICK partial \in BOOLEAN :
        LET resume == partial /\ from[c] > 0 IN
        /\ from' = [from EXCEPT ![c] = IF resume THEN @ ELSE 0]
        /\ tmp' = [tmp EXCEPT ![v] = IF resume /\ @ # NoFile THEN @ ELSE <<>>]
        /\ fd' = [fd EXCEPT ![c] = [on |-> "tmp", append |-> resume]]
  BY DEF Response
<1>2. /\ pc[c] = "get" /\ from[c] = Size(tmp[v]) /\ v \in Version
      /\ man[c] = pending /\ man[c] \in Manifest
      /\ pc' = [pc EXCEPT ![c] = "stream"] /\ baton' = "none"
      /\ UNCHANGED <<final, saved, world, updater, checker, man, sent, seen>>
  BY DEF Response, At, Await, IInv, Holds, Manifest
<1>3. pc' \in [Callers -> Label] /\ pc'[c] = "stream"
  BY <1>2 DEF IInv, Types, Label
<1>4. tmp[v] \in Begun /\ Size(tmp[v]) \in 0..Chunks
  BY <1>2, BegunSize DEF IInv, Types
<1>5. fd' \in [Callers -> [on : {"tmp", "final", "gone"}, append : BOOLEAN]]
      /\ fd'[c].on = "tmp"
  BY <1>1 DEF IInv, Types
<1>6. /\ from' \in [Callers -> 0..Chunks] /\ tmp' \in [Version -> Begun]
      /\ tmp'[v] = First(from'[c])
  <2>1. CASE partial /\ from[c] > 0
    <3>1. tmp[v] # NoFile /\ tmp[v] = First(from[c])
      BY <1>2, <1>4, <2>1, BegunSize
    <3>2. from' = from /\ tmp' = tmp
      BY <1>1, <2>1, <3>1 DEF IInv, Types
    <3>3. QED  BY <3>1, <3>2 DEF IInv, Types
  <2>2. CASE ~(partial /\ from[c] > 0)
    <3>1. from' = [from EXCEPT ![c] = 0] /\ tmp' = [tmp EXCEPT ![v] = <<>>]
      BY <1>1, <2>2
    <3>2. 0 \in 0..Chunks
      BY OtaAssumption DEF OtaAssumption
    <3>3. QED  BY <1>2, <3>1, <3>2, Ends DEF IInv, Types
  <2>3. QED  BY <2>1, <2>2
<1>7. Types'
  BY <1>2, <1>3, <1>5, <1>6 DEF IInv, Types, world, updater, checker
<1>8. Holds(c)'
  BY <1>2, <1>3, <1>5, <1>6 DEF Holds, updater
<1>9. QED
  BY <1>2, <1>7, <1>8, Aside DEF Label, world, updater

LEMMA ChunkStep == ASSUME IInv, overlapped' = FALSE, NEW c \in Callers, Chunk(c) PROVE IInv'
<1> DEFINE v == man[c].version
           i == from[c] + 1
<1>1. /\ pc[c] = "stream" /\ from[c] < Chunks /\ v \in Version
      /\ man[c] = pending /\ man[c] \in Manifest
      /\ tmp[v] = First(from[c]) /\ fd[c].on = "tmp"
      /\ pc' = [pc EXCEPT ![c] = "stream"] /\ baton' = "none"
      /\ from' = [from EXCEPT ![c] = i]
      /\ UNCHANGED <<saved, world, updater, checker, man, sent, seen, fd>>
  BY DEF Chunk, At, Await, IInv, Holds, Manifest
<1>2. from[c] \in Nat /\ i \in 0..Chunks /\ Chunks \in Nat
  BY <1>1, OtaAssumption DEF IInv, Types, OtaAssumption
<1>3. tmp' = [tmp EXCEPT ![v] = First(i)] /\ final' = final
  <2>1. Append(First(from[c]), i) = First(i) /\ WriteAt(First(from[c]), i, i) = First(i)
    BY <1>2, Grows
  <2>2. tmp' = [tmp EXCEPT ![v] = IF fd[c].append THEN Append(tmp[v], i)
                                  ELSE WriteAt(tmp[v], i, i)]
    BY <1>1 DEF Chunk
  <2>3. QED  BY <1>1, <2>1, <2>2 DEF Chunk
<1>4. pc' \in [Callers -> Label] /\ pc'[c] = "stream"
  BY <1>1 DEF IInv, Types, Label
<1>5. /\ from' \in [Callers -> 0..Chunks] /\ from'[c] = i
      /\ tmp' \in [Version -> Begun] /\ tmp'[v] = First(i)
  BY <1>1, <1>2, <1>3 DEF IInv, Types, Begun
<1>6. Types'
  BY <1>1, <1>3, <1>4, <1>5 DEF IInv, Types, world, updater, checker
<1>7. Holds(c)'
  BY <1>1, <1>4, <1>5 DEF Holds, updater
<1>8. QED
  BY <1>1, <1>6, <1>7, Aside DEF Label, world, updater

\* Descriptors stay descriptors when a file is renamed or unlinked.
LEMMA Descriptors ==
  ASSUME Types, NEW c \in Callers, NEW v
  PROVE  /\ Renamed(c, v) \in [Callers -> [on : {"tmp", "final", "gone"}, append : BOOLEAN]]
         /\ Unlinked(fd, v) \in [Callers -> [on : {"tmp", "final", "gone"}, append : BOOLEAN]]
<1> DEFINE D == [on : {"tmp", "final", "gone"}, append : BOOLEAN]
<1>1. \A d \in Callers : fd[d] \in D
  BY DEF Types
<1>2. \A d \in Callers, o \in {"final", "gone"} : [fd[d] EXCEPT !.on = o] \in D
  BY <1>1
<1>3. Renamed(c, v) \in [Callers -> D]
  BY <1>1, <1>2 DEF Renamed
<1>4. Unlinked(fd, v) \in [Callers -> D]
  BY <1>1, <1>2 DEF Unlinked
<1>5. QED  BY <1>3, <1>4

LEMMA DownloadedStep == ASSUME IInv, overlapped' = FALSE, NEW c \in Callers, Downloaded(c) PROVE IInv'
<1> DEFINE v == man[c].version
<1>1. /\ pc[c] = "stream" /\ from[c] = Chunks /\ v \in Version
      /\ man[c] = pending /\ man[c] \in Manifest /\ tmp[v] = First(from[c])
      /\ UNCHANGED <<saved, world, current, previous, pending, checker, man, sent, seen, from>>
  BY DEF Downloaded, At, IInv, Holds, Manifest
<1>2. tmp[v] = Wheel /\ tmp[v] # NoFile
  BY <1>1, Ends
<1>3. /\ tmp' = [tmp EXCEPT ![v] = NoFile] /\ final' = [final EXCEPT ![v] = Wheel]
      /\ fd' = Renamed(c, v) /\ path' = v /\ flag' = "idle"
      /\ pc' = [pc EXCEPT ![c] = "install"] /\ baton' = c
  BY <1>2 DEF Downloaded, GoOn
<1>4. pc' \in [Callers -> Label] /\ pc'[c] = "install"
  BY <1>3 DEF IInv, Types, Label
<1>5. fd' \in [Callers -> [on : {"tmp", "final", "gone"}, append : BOOLEAN]]
  BY <1>3, Descriptors DEF IInv
<1>6. path' \in 0..MaxVersion
  BY <1>1, <1>3 DEF Version
<1>7. Types'
  BY <1>1, <1>3, <1>4, <1>5, <1>6 DEF IInv, Types, Begun, world, checker
<1>8. Holds(c)'
  BY <1>1, <1>3, <1>4 DEF Holds
<1>9. QED
  BY <1>1, <1>3, <1>7, <1>8, Aside DEF Label, world

LEMMA BeginInstallStep ==
  ASSUME IInv, overlapped' = FALSE, NEW c \in Callers, BeginInstall(c) PROVE IInv'
<1>1. /\ pc[c] = "install" /\ man[c] = pending /\ man[c] \in Manifest
      /\ path = man[c].version
      /\ UNCHANGED <<tmp, final, world, checker, current, previous, pending, path,
                     sent, seen, from, fd>>
  BY DEF BeginInstall, At, IInv, Holds
<1>2. path # 0 /\ pending # NoManifest
  BY <1>1 DEF Manifest, Version, NoManifest
<1>3. /\ flag' = "installing" /\ man' = [man EXCEPT ![c] = pending]
      /\ \/ saved' = current /\ Await(c, "pip")
         \/ saved' \in {saved, 0} /\ Raise(c)
  BY <1>2 DEF BeginInstall
<1>4. pc' \in [Callers -> Label] /\ baton' \in Callers \cup {"none"}
  BY <1>3 DEF IInv, Types, Label, Await, Raise
<1>5. man' \in [Callers -> Manifest \cup {NoManifest}] /\ man'[c] = man[c]
  BY <1>1, <1>3 DEF IInv, Types
<1>6. saved' \in 0..MaxVersion
  BY <1>3, OtaAssumption DEF IInv, Types, Version, OtaAssumption
<1>7. Types'
  BY <1>1, <1>3, <1>4, <1>5, <1>6 DEF IInv, Types, world, checker
<1>8. CASE Raise(c)
  BY <1>1, <1>7, <1>8, RaiseStep DEF world
<1>9. CASE Await(c, "pip")
  <2>1. pc' = [pc EXCEPT ![c] = "pip"] /\ pc'[c] = "pip"
    BY <1>9 DEF Await, IInv, Types
  <2>2. Holds(c)'
    BY <1>1, <1>5, <2>1 DEF Holds
  <2>3. QED
    BY <1>1, <1>7, <2>1, <2>2, Aside DEF Label, world
<1>10. QED  BY <1>3, <1>8, <1>9

\* What pip installs is the wheel of the version that will be recorded.
LEMMA PipInstallsStep == ASSUME IInv, overlapped' = FALSE, NEW c \in Callers, PipInstalls(c) PROVE IInv'
<1>1. /\ pc[c] = "pip" /\ man[c] = pending /\ man[c] \in Manifest
      /\ path = man[c].version /\ path \in Version /\ final[path] # NoFile
      /\ installed' = [version |-> path, intact |-> final[path] = Wheel]
      /\ pc' = [pc EXCEPT ![c] = "piped"]
      /\ UNCHANGED <<disk, page, crashes, updater, checker, locals, baton, overlapped>>
  BY DEF PipInstalls, At, IInv, Holds, Manifest
<1>2. final[path] = Wheel
  BY <1>1 DEF IInv, Types
<1>3. installed' = [version |-> path, intact |-> TRUE]
  BY <1>1, <1>2
<1>4. /\ pc' \in [Callers -> Label] /\ pc'[c] = "piped" /\ OneBusy'
      /\ \A d \in Callers : d # c => pc'[d] \in {"idle", "ended"}
  BY <1>1, OthersIdle DEF Label
<1>5. Types'
  BY <1>1, <1>3, <1>4 DEF IInv, Types, disk, updater, checker, locals
<1>6. \A d \in Callers : Holds(d)'
  BY <1>1, <1>3, <1>4 DEF Holds, disk, updater, locals
<1>7. Recorded' /\ installed'.intact
  BY <1>3, <1>4 DEF Recorded, Changing
<1>8. QED  BY <1>4, <1>5, <1>6, <1>7 DEF IInv

\* The record of what pip has installed: c is the only one between the two.
LEMMA RecordStep ==
  ASSUME IInv, overlapped' = FALSE, NEW c \in Callers, pc[c] \in {"piped", "rolled"},
         NEW l \in {"idle", "restart"}, pc' = [pc EXCEPT ![c] = l],
         current' = installed.version, installed' = installed, Types'
  PROVE  IInv'
<1>1. /\ pc'[c] = l /\ OneBusy'
      /\ \A d \in Callers : d # c => pc'[d] \in {"idle", "ended"}
  BY OthersIdle DEF Label
<1>2. \A d \in Callers : Holds(d)'
  BY <1>1 DEF Holds
<1>3. Recorded' /\ installed'.intact
  BY DEF IInv, Recorded
<1>4. QED  BY <1>1, <1>2, <1>3 DEF IInv

LEMMA InstalledStep == ASSUME IInv, overlapped' = FALSE, NEW c \in Callers, Installed(c) PROVE IInv'
<1>1. /\ pc[c] = "piped" /\ man[c] \in Manifest /\ man[c].version \in Version
      /\ installed.version = man[c].version /\ path = man[c].version /\ path # 0
  BY DEF Installed, At, IInv, Holds, Manifest, Version
<1>2. PICK l \in {"idle", "restart"} : pc' = [pc EXCEPT ![c] = l]
  BY DEF Installed, GoOn, Return, Await
<1>3. pc' \in [Callers -> Label] /\ baton' \in Callers \cup {"none"}
  BY <1>2 DEF Installed, GoOn, Return, Await, IInv, Types, Label
<1>4. /\ final' = [final EXCEPT ![path] = NoFile] /\ fd' = Unlinked(fd, path)
      /\ previous' = current /\ current' = man[c].version /\ path' = 0
      /\ pending' = NoManifest /\ flag' = "idle"
      /\ UNCHANGED <<tmp, saved, world, checker, man, sent, seen, from>>
  BY <1>1 DEF Installed
<1>5. fd' \in [Callers -> [on : {"tmp", "final", "gone"}, append : BOOLEAN]]
  BY <1>4, Descriptors DEF IInv
<1>6. previous' \in 0..MaxVersion /\ path' \in 0..MaxVersion
  BY <1>4, OtaAssumption DEF IInv, Types, Version, OtaAssumption
<1>7. Types'
  BY <1>1, <1>3, <1>4, <1>5, <1>6 DEF IInv, Types, world, checker
<1>8. QED
  BY <1>1, <1>2, <1>4, <1>7, RecordStep DEF world

LEMMA BeginRollbackStep ==
  ASSUME IInv, overlapped' = FALSE, NEW c \in Callers, BeginRollback(c), \A d \in Callers : pc[d] \in {"idle", "ended"}
  PROVE  IInv'
<1>1. UNCHANGED <<disk, world, checker, current, previous, pending, path, man, sent, from, fd>>
  BY DEF BeginRollback
<1>2. CASE previous = 0
  <2>1. /\ pc' = [pc EXCEPT ![c] = "idle"] /\ baton' = "none"
        /\ UNCHANGED <<flag, seen>>
    BY <1>2 DEF BeginRollback, Return, Await
  <2>2. pc' \in [Callers -> Label] /\ pc'[c] = "idle"
    BY <2>1 DEF IInv, Types, Label
  <2>3. Types'
    BY <1>1, <2>1, <2>2 DEF IInv, Types, disk, world, checker
  <2>4. Holds(c)'
    BY <2>2 DEF Holds
  <2>5. QED  BY <1>1, <2>1, <2>3, <2>4, Aside DEF Label, world
<1>3. CASE previous # 0
  <2>1. /\ pc' = [pc EXCEPT ![c] = "rollpip"] /\ baton' = "none"
        /\ flag' = "installing" /\ seen' = [seen EXCEPT ![c] = previous]
    BY <1>3 DEF BeginRollback, Await
  <2>2. pc' \in [Callers -> Label] /\ pc'[c] = "rollpip"
    BY <2>1 DEF IInv, Types, Label
  <2>3. seen' \in [Callers -> 0..MaxVersion] /\ seen'[c] \in Version
    BY <1>3, <2>1, OtaAssumption DEF IInv, Types, Version, OtaAssumption
  <2>4. Types'
    BY <1>1, <2>1, <2>2, <2>3 DEF IInv, Types, disk, world, checker
  <2>5. Holds(c)'
    BY <2>2, <2>3 DEF Holds
  <2>6. QED  BY <1>1, <2>1, <2>4, <2>5, Aside DEF Label, world
<1>4. QED  BY <1>2, <1>3

LEMMA PipRollsBackStep == ASSUME IInv, overlapped' = FALSE, NEW c \in Callers, PipRollsBack(c) PROVE IInv'
<1>1. /\ pc[c] = "rollpip" /\ seen[c] \in Version
      /\ installed' = [version |-> seen[c], intact |-> TRUE]
      /\ pc' = [pc EXCEPT ![c] = "rolled"]
      /\ UNCHANGED <<disk, page, crashes, updater, checker, locals, baton, overlapped>>
  BY DEF PipRollsBack, At, IInv, Holds
<1>2. /\ pc' \in [Callers -> Label] /\ pc'[c] = "rolled" /\ OneBusy'
      /\ \A d \in Callers : d # c => pc'[d] \in {"idle", "ended"}
  BY <1>1, OthersIdle DEF Label
<1>3. Types'
  BY <1>1, <1>2 DEF IInv, Types, disk, updater, checker, locals
<1>4. \A d \in Callers : Holds(d)'
  BY <1>1, <1>2 DEF Holds, locals
<1>5. Recorded' /\ installed'.intact
  BY <1>1, <1>2 DEF Recorded, Changing
<1>6. QED  BY <1>2, <1>3, <1>4, <1>5 DEF IInv

LEMMA RolledBackStep == ASSUME IInv, overlapped' = FALSE, NEW c \in Callers, RolledBack(c) PROVE IInv'
<1>1. pc[c] = "rolled" /\ seen[c] \in Version /\ installed.version = seen[c]
  BY DEF RolledBack, At, IInv, Holds
<1>2. /\ pc' = [pc EXCEPT ![c] = "restart"] /\ baton' = c
      /\ previous' = current /\ current' = seen[c] /\ flag' = "idle"
      /\ UNCHANGED <<disk, world, checker, pending, path, locals>>
  BY DEF RolledBack, GoOn
<1>3. pc' \in [Callers -> Label] /\ previous' \in 0..MaxVersion
  BY <1>2 DEF IInv, Types, Label, Version
<1>4. Types'
  BY <1>1, <1>2, <1>3 DEF IInv, Types, disk, world, checker, locals
<1>5. QED
  BY <1>1, <1>2, <1>4, RecordStep DEF world

LEMMA BeginRestartStep ==
  ASSUME IInv, overlapped' = FALSE, NEW c \in Callers, BeginRestart(c),
         pc[c] = "restart" \/ \A d \in Callers : pc[d] \in {"idle", "ended"}
  PROVE  IInv'
<1>1. /\ pc[c] \in {"restart", "idle"}
      /\ pc' = [pc EXCEPT ![c] = "systemctl"] /\ baton' = "none"
      /\ flag' = "restarting"
      /\ UNCHANGED <<disk, world, checker, current, previous, pending, path, locals>>
  BY DEF BeginRestart, At, Await
<1>2. pc' \in [Callers -> Label] /\ pc'[c] = "systemctl"
  BY <1>1 DEF IInv, Types, Label
<1>3. Types'
  BY <1>1, <1>2 DEF IInv, Types, disk, world, checker, locals
<1>4. Holds(c)'
  BY <1>2 DEF Holds
<1>5. QED  BY <1>1, <1>3, <1>4, Aside DEF Label, world

LEMMA RestartFailsStep == ASSUME IInv, overlapped' = FALSE, NEW c \in Callers, RestartFails(c) PROVE IInv'
<1>1. /\ pc[c] = "systemctl"
      /\ pc' = [pc EXCEPT ![c] = "idle"] /\ baton' = "none"
      /\ UNCHANGED <<disk, world, updater, checker, locals>>
  BY DEF RestartFails, At, Return, Await
<1>2. pc' \in [Callers -> Label] /\ pc'[c] = "idle"
  BY <1>1 DEF IInv, Types, Label
<1>3. Types'
  BY <1>1, <1>2 DEF IInv, Types, disk, world, updater, checker, locals
<1>4. Holds(c)'
  BY <1>2 DEF Holds
<1>5. QED  BY <1>1, <1>3, <1>4, Aside DEF Label, world, updater

\* A new process over the disk the last one left: the version it shows is the
\* package it was started from.
LEMMA NewProcessStep ==
  ASSUME IInv, overlapped' = FALSE, NEW s \in 0..MaxVersion, NewProcess(s), crashes' \in 0..MaxCrashes
  PROVE  IInv'
<1>1. 0 \in 0..MaxVersion /\ 0 \in 0..Chunks
  BY OtaAssumption DEF OtaAssumption
<1>2. \A c \in Callers : pc'[c] = "idle"
  BY DEF NewProcess
<1>3. Types'
  <2>1. fd' \in [Callers -> [on : {"tmp", "final", "gone"}, append : BOOLEAN]]
    BY DEF NewProcess, Closed
  <2>2. /\ man' \in [Callers -> Manifest \cup {NoManifest}]
        /\ sent' \in [Callers -> Page \cup {NoPage}]
        /\ seen' \in [Callers -> 0..MaxVersion] /\ from' \in [Callers -> 0..Chunks]
        /\ pc' \in [Callers -> Label]
    BY <1>1 DEF NewProcess, Label
  <2>3. current' \in Version /\ previous' \in 0..MaxVersion
    BY DEF NewProcess, IInv, Types
  <2>4. QED  BY <1>1, <2>1, <2>2, <2>3 DEF NewProcess, IInv, Types
<1>4. OneBusy' /\ \A c \in Callers : Holds(c)'
  BY <1>2 DEF OneBusy, Holds
<1>5. Recorded' /\ installed'.intact
  BY DEF NewProcess, IInv, Recorded
<1>6. QED  BY <1>3, <1>4, <1>5 DEF IInv

LEMMA PublishStep == ASSUME IInv, overlapped' = FALSE, Publish \/ Upload PROVE IInv'
<1>1. /\ page' \in Page
      /\ UNCHANGED <<disk, installed, crashes, updater, checker, locals, pc, baton, overlapped>>
  <2>1. CASE Publish
    <3>1. page.version + 1 \in Version
      BY <2>1, OtaAssumption DEF Publish, IInv, Types, Page, Version, OtaAssumption
    <3>2. QED  BY <2>1, <3>1 DEF Publish, Page
  <2>2. CASE Upload
    BY <2>2 DEF Upload, IInv, Types, Page
  <2>3. QED  BY <2>1, <2>2
<1>2. Types'
  BY <1>1 DEF IInv, Types, disk, updater, checker, locals
<1>3. \A c \in Callers : Holds(c)'
  BY <1>1 DEF IInv, Holds, disk, updater, locals
<1>4. OneBusy' /\ Recorded' /\ installed'.intact
  BY <1>1 DEF IInv, OneBusy, Recorded, Changing, updater
<1>5. QED  BY <1>2, <1>3, <1>4 DEF IInv

LEMMA StutterStep == ASSUME IInv, overlapped' = FALSE, UNCHANGED vars PROVE IInv'
<1>1. UNCHANGED <<disk, world, updater, checker, locals, pc, baton, overlapped>>
  BY DEF vars
<1>2. Types'
  BY <1>1 DEF IInv, Types, disk, world, updater, checker, locals
<1>3. \A c \in Callers : Holds(c)'
  BY <1>1 DEF IInv, Holds, disk, world, updater, locals
<1>4. OneBusy' /\ Recorded' /\ installed'.intact
  BY <1>1 DEF IInv, OneBusy, Recorded, Changing, updater, world
<1>5. QED  BY <1>2, <1>3, <1>4 DEF IInv

-----------------------------------------------------------------------------
(* The theorems.                                                             *)

\* A call that begins and overlaps no other finds none under way.
LEMMA Alone ==
  ASSUME IInv, overlapped' = FALSE, NEW c \in Callers, Call(c)
  PROVE  \A d \in Callers : pc[d] \in {"idle", "ended"}
<1>1. pc[c] = "idle" /\ Begins(c)
  BY DEF Call, At, Check, BeginDownload, BeginRollback, BeginRestart
<1>2. \A d \in Callers \ {c} : ~UnderWay(d)
  BY <1>1 DEF Begins
<1>3. QED  BY <1>1, <1>2 DEF UnderWay

LEMMA CallStep ==
  ASSUME IInv, overlapped' = FALSE, NEW c \in Callers, Call(c) PROVE IInv'
<1>1. \A d \in Callers : pc[d] \in {"idle", "ended"}
  BY Alone
<1>2. Check(c) \/ BeginDownload(c) \/ BeginRollback(c) \/ BeginRestart(c)
  BY DEF Call
<1>3. QED
  BY <1>1, <1>2, CheckStep, BeginDownloadStep, BeginRollbackStep, BeginRestartStep

LEMMA StepStep == ASSUME IInv, overlapped' = FALSE, NEW c \in Callers, Step(c) PROVE IInv'
<1>1. CASE QueryNothing(c) \/ QueryNotModified(c)
  BY <1>1, QueryStep
<1>2. CASE DownloadError(c)
  BY <1>2, FailStep DEF DownloadError, At, IInv, Types, disk, locals
<1>3. CASE PipFails(c)
  BY <1>3, FailStep DEF PipFails, At, IInv, Types, disk, locals
<1>4. CASE At(c, "download") /\ BeginDownload(c)
  BY <1>4, BeginDownloadStep DEF At
<1>5. CASE At(c, "restart") /\ BeginRestart(c)
  BY <1>5, BeginRestartStep DEF At
<1>6. CASE Restarts(c)
  BY <1>6, NewProcessStep DEF Restarts, IInv, Types
<1>7. CASE QueryAnswered(c) \/ SumsAnswered(c) \/ QueryRaises(c)
  BY <1>7, QueryAnsweredStep, SumsAnsweredStep, QueryRaisesStep
<1>8. CASE Response(c) \/ Chunk(c) \/ Downloaded(c)
  BY <1>8, ResponseStep, ChunkStep, DownloadedStep
<1>9. CASE BeginInstall(c) \/ PipInstalls(c) \/ Installed(c)
  BY <1>9, BeginInstallStep, PipInstallsStep, InstalledStep
<1>10. CASE PipRollsBack(c) \/ RolledBack(c) \/ RestartFails(c)
  BY <1>10, PipRollsBackStep, RolledBackStep, RestartFailsStep
<1>11. QED
  BY <1>1, <1>2, <1>3, <1>4, <1>5, <1>6, <1>7, <1>8, <1>9, <1>10 DEF Step

LEMMA Initially == Init => IInv
<1> SUFFICES ASSUME Init PROVE IInv
  OBVIOUS
<1>1. 0 \in 0..MaxVersion /\ 0 \in 0..Chunks /\ 0 \in 0..MaxCrashes /\ 1 \in Version
  BY OtaAssumption DEF OtaAssumption, Version
<1>2. \A c \in Callers : pc[c] = "idle"
  BY DEF Init
<1>3. Types
  <2>1. fd \in [Callers -> [on : {"tmp", "final", "gone"}, append : BOOLEAN]]
    BY DEF Init, Closed
  <2>2. /\ man \in [Callers -> Manifest \cup {NoManifest}]
        /\ sent \in [Callers -> Page \cup {NoPage}]
        /\ seen \in [Callers -> 0..MaxVersion] /\ from \in [Callers -> 0..Chunks]
        /\ pc \in [Callers -> Label]
    BY <1>1 DEF Init, Label
  <2>3. tmp \in [Version -> Begun] /\ final \in [Version -> {NoFile, Wheel}]
    BY DEF Init, Begun
  <2>4. installed \in [version : Version, intact : BOOLEAN] /\ page \in Page
    BY <1>1 DEF Init, Page
  <2>5. QED  BY <1>1, <2>1, <2>2, <2>3, <2>4 DEF Init, Types
<1>4. OneBusy /\ \A c \in Callers : Holds(c)
  BY <1>2 DEF OneBusy, Holds
<1>5. Recorded /\ installed.intact /\ overlapped = FALSE
  BY DEF Init, Recorded
<1>6. QED  BY <1>3, <1>4, <1>5 DEF IInv

\* Calls that have overlapped once have overlapped for good.
LEMMA OverlapMoves ==
  [Next]_vars => overlapped' = overlapped \/ \E c \in Callers : Begins(c)
<1>1. ASSUME NEW c \in Callers, Call(c) PROVE Begins(c)
  BY <1>1 DEF Call, Check, BeginDownload, BeginRollback, BeginRestart
<1>2. ASSUME NEW c \in Callers, Step(c) PROVE overlapped' = overlapped \/ Begins(c)
  BY <1>2 DEF Step, QueryNothing, QueryRaises, QueryNotModified, QueryAnswered,
       SumsAnswered, BeginDownload, DownloadError, Response, Chunk, Downloaded,
       BeginInstall, PipInstalls, PipFails, Installed, PipRollsBack, RolledBack,
       BeginRestart, RestartFails, Restarts, NewProcess
<1>3. Publish \/ Upload \/ Crash \/ UNCHANGED vars => overlapped' = overlapped
  BY DEF Publish, Upload, Crash, NewProcess, vars
<1>4. QED  BY <1>1, <1>2, <1>3 DEF Next

Sound == overlapped = TRUE \/ IInv

LEMMA OtaInvariant == Spec => []Sound
<1>1. ASSUME Sound, [Next]_vars PROVE Sound'
  <2>1. CASE overlapped = TRUE
    BY <1>1, <2>1, OverlapMoves DEF Sound, Begins
  <2>2. CASE overlapped' = TRUE
    BY <2>2 DEF Sound
  <2>3. CASE overlapped # TRUE /\ overlapped' # TRUE
    <3>1. IInv /\ overlapped = FALSE
      BY <1>1, <2>3 DEF Sound, IInv
    <3>2. overlapped' = FALSE
      BY <1>1, <2>3, <3>1, OverlapMoves DEF Begins
    <3>3. CASE Publish \/ Upload
      BY <3>1, <3>2, <3>3, PublishStep DEF Sound
    <3>4. CASE Crash
      <4>1. crashes' \in 0..MaxCrashes
        BY <3>1, <3>4, OtaAssumption DEF Crash, IInv, Types, OtaAssumption
      <4>2. saved \in 0..MaxVersion /\ 0 \in 0..MaxVersion
        BY <3>1, OtaAssumption DEF IInv, Types, OtaAssumption
      <4>3. QED  BY <3>1, <3>2, <3>4, <4>1, <4>2, NewProcessStep DEF Crash, Sound
    <3>5. CASE \E c \in Callers : Call(c) \/ Step(c)
      BY <3>1, <3>2, <3>5, CallStep, StepStep DEF Sound
    <3>6. CASE UNCHANGED vars
      BY <3>1, <3>2, <3>6, StutterStep DEF Sound
    <3>7. QED  BY <1>1, <3>3, <3>4, <3>5, <3>6 DEF Next
  <2>4. QED  BY <2>1, <2>2, <2>3
<1>2. Init => Sound
  BY Initially DEF Sound
<1>3. QED  BY <1>1, <1>2, PTL DEF Spec

\* The version GET /ota shows is the installed one between calls, through
\* failures, uncaught exceptions, resumed downloads, rollbacks and restarts, until
\* a call has begun while another was under way (OtaUpdater, whose run() and
\* routes take no lock).
THEOREM CurrentIsInstalledAlways == Spec => []CurrentIsInstalled
<1>1. Sound => CurrentIsInstalled
  BY DEF Sound, IInv, Recorded, CurrentIsInstalled, Apart
<1>2. QED  BY OtaInvariant, <1>1, PTL

\* What pip installs is the published wheel, whatever pieces of it which process
\* fetched (UpdateDownloader.download), also without a digest to compare, until a
\* call has begun while another was under way.
THEOREM InstalledIntactAlways == Spec => []InstalledIntact
<1>1. Sound => InstalledIntact
  BY DEF Sound, IInv, InstalledIntact, Apart
<1>2. QED  BY OtaInvariant, <1>1, PTL

-----------------------------------------------------------------------------
(* The types, however calls overlap.  What is hard of them is that files stay  *)
(* short while several downloads append to one of them: a caller that appends, *)
(* or may yet, has a part of the room there is.                                *)

Appends(c, v, o) ==
  /\ c \in Callers /\ man[c].version = v /\ from[c] \in 1..(Chunks - 1)
  /\ \/ pc[c] = "get" /\ o = "tmp"
     \/ pc[c] = "stream" /\ fd[c].append /\ fd[c].on = o

\* What c may still append to the file o of version v.
Left(c, v, o) == IF Appends(c, v, o) THEN Chunks - from[c] ELSE 0

Total(v, o) == Left("loop", v, o) + Left("api", v, o) + Left("api2", v, o)

OnDisk(v, o) == IF o = "tmp" THEN tmp[v] ELSE final[v]

Room(v, o) == Len(OnDisk(v, o)) + Total(v, o) <= 3 * Chunks

Bytes == Seq(0..Chunks)

\* Types with files of any length.
LTypes ==
  /\ page \in Page
  /\ installed \in [version : Version, intact : BOOLEAN]
  /\ tmp \in [Version -> Bytes] /\ final \in [Version -> Bytes]
  /\ saved \in 0..MaxVersion
  /\ flag \in {"idle", "checking", "downloading", "installing", "restarting",
               "failed"}
  /\ current \in Version /\ previous \in 0..MaxVersion
  /\ pending \in Manifest \cup {NoManifest}
  /\ path \in 0..MaxVersion
  /\ etag \in Page \cup {NoPage}
  /\ cached \in Manifest \cup {NoManifest}
  /\ pc \in [Callers -> Label]
  /\ man \in [Callers -> Manifest \cup {NoManifest}]
  /\ sent \in [Callers -> Page \cup {NoPage}]
  /\ seen \in [Callers -> 0..MaxVersion]
  /\ from \in [Callers -> 0..(3 * Chunks)]
  /\ fd \in [Callers -> [on : {"tmp", "final", "gone"}, append : BOOLEAN]]
  /\ baton \in Callers \cup {"none"}
  /\ crashes \in 0..MaxCrashes
  /\ overlapped \in BOOLEAN

\* What a caller has in hand, though it may no longer be what is pending.
InHand(c) ==
  /\ pc[c] \in {"sums", "get", "stream", "install", "pip", "piped"}
       => man[c] \in Manifest
  /\ pc[c] = "stream" => from[c] <= Chunks /\ (fd[c].append => from[c] > 0)
  /\ pc[c] \in {"rollpip", "rolled"} => seen[c] \in Version

LInv ==
  /\ LTypes
  /\ \A c \in Callers : InHand(c)
  /\ \A v \in Version, o \in {"tmp", "final"} : Room(v, o)

-----------------------------------------------------------------------------
(* The room.                                                                   *)

LEMMA LeftRange ==
  /\ Chunks \in Nat /\ Chunks >= 1
  /\ \A c, v, o : Left(c, v, o) \in 0..(Chunks - 1) /\ Left(c, v, o)' \in 0..(Chunks - 1)
<1>1. Chunks \in Nat /\ Chunks >= 1
  BY OtaAssumption DEF OtaAssumption
<1>2. \A k \in 1..(Chunks - 1) : Chunks - k \in 0..(Chunks - 1)
  BY <1>1
<1>3. 0 \in 0..(Chunks - 1)
  BY <1>1
<1>4. \A c, v, o : Left(c, v, o) \in 0..(Chunks - 1)
  BY <1>2, <1>3 DEF Left, Appends
<1>5. \A c, v, o : Left(c, v, o)' \in 0..(Chunks - 1)
  BY <1>2, <1>3 DEF Left, Appends
<1>6. QED  BY <1>1, <1>4, <1>5

\* Three callers: the total moves by what c's part moves, and the two others
\* never have a wheel each.
LEMMA TotalMoves ==
  ASSUME NEW c \in Callers, NEW v, NEW o,
         \A d \in Callers \ {c} : Left(d, v, o)' <= Left(d, v, o)
  PROVE  /\ Total(v, o) \in Nat /\ Total(v, o)' \in Nat
         /\ Total(v, o)' + Left(c, v, o) <= Total(v, o) + Left(c, v, o)'
         /\ Total(v, o)' <= Left(c, v, o)' + 2 * (Chunks - 1)
<1> DEFINE L(d) == Left(d, v, o)
           R(d) == Left(d, v, o)'
<1>1. /\ Chunks \in Nat /\ Chunks >= 1
      /\ \A d : L(d) \in 0..(Chunks - 1) /\ R(d) \in 0..(Chunks - 1)
  BY LeftRange
<1>2. \A d : d # c => R(d) <= L(d)
  <2>1. \A d : d \notin Callers => L(d) = 0 /\ R(d) = 0
    BY DEF Left, Appends
  <2>2. QED  BY <2>1
<1>3. c \in {"loop", "api", "api2"}
  BY OtaAssumption DEF OtaAssumption
<1>4. /\ Total(v, o) = L("loop") + L("api") + L("api2")
      /\ Total(v, o)' = R("loop") + R("api") + R("api2")
  BY DEF Total
<1> HIDE DEF L, R
<1>5. /\ L("loop") \in 0..(Chunks - 1) /\ L("api") \in 0..(Chunks - 1) /\ L("api2") \in 0..(Chunks - 1)
      /\ R("loop") \in 0..(Chunks - 1) /\ R("api") \in 0..(Chunks - 1) /\ R("api2") \in 0..(Chunks - 1)
  BY <1>1
<1>6. /\ c # "loop" => R("loop") <= L("loop")
      /\ c # "api" => R("api") <= L("api")
      /\ c # "api2" => R("api2") <= L("api2")
  BY <1>2
<1>7. /\ Total(v, o) \in Nat /\ Total(v, o)' \in Nat
      /\ Total(v, o)' + L(c) <= Total(v, o) + R(c)
      /\ Total(v, o)' <= R(c) + 2 * (Chunks - 1)
  <2>1. CASE c = "loop"
    BY <1>1, <1>4, <1>5, <1>6, <2>1
  <2>2. CASE c = "api"
    BY <1>1, <1>4, <1>5, <1>6, <2>2
  <2>3. CASE c = "api2"
    BY <1>1, <1>4, <1>5, <1>6, <2>3
  <2>4. QED  BY <1>3, <2>1, <2>2, <2>3
<1>8. QED  BY <1>7 DEF L, R

\* A file that has just begun, or is gone, has room for all three.
LEMMA ShortFits ==
  ASSUME NEW v, NEW o, Len(OnDisk(v, o)') \in 0..1 PROVE Room(v, o)'
<1>1. /\ Chunks \in Nat /\ Chunks >= 1
      /\ Left("loop", v, o)' \in 0..(Chunks - 1)
      /\ Left("api", v, o)' \in 0..(Chunks - 1)
      /\ Left("api2", v, o)' \in 0..(Chunks - 1)
  BY LeftRange
<1> DEFINE a == Left("loop", v, o)'
           b == Left("api", v, o)'
           e == Left("api2", v, o)'
           N == Len(OnDisk(v, o)')
<1>2. a \in 0..(Chunks - 1) /\ b \in 0..(Chunks - 1) /\ e \in 0..(Chunks - 1) /\ N \in 0..1
  BY <1>1
<1> HIDE DEF a, b, e, N
<1>3. N + (a + b + e) <= 3 * Chunks
  BY <1>1, <1>2
<1>4. QED  BY <1>3 DEF Room, Total, a, b, e, N

\* A file that c's step leaves alone, or that grows by what c's part shrinks.
LEMMA RoomKept ==
  ASSUME NEW c \in Callers, NEW v, NEW o, Room(v, o),
         \A d \in Callers \ {c} : Left(d, v, o)' <= Left(d, v, o),
         Len(OnDisk(v, o)) \in Nat, Len(OnDisk(v, o)') \in Nat,
         Len(OnDisk(v, o)') + Left(c, v, o)' <= Len(OnDisk(v, o)) + Left(c, v, o)
  PROVE  Room(v, o)'
<1>1. /\ Total(v, o) \in Nat /\ Total(v, o)' \in Nat
      /\ Total(v, o)' + Left(c, v, o) <= Total(v, o) + Left(c, v, o)'
  BY TotalMoves
<1>2. Chunks \in Nat /\ Left(c, v, o) \in 0..(Chunks - 1) /\ Left(c, v, o)' \in 0..(Chunks - 1)
  BY LeftRange
<1> DEFINE T == Total(v, o)
           U == Total(v, o)'
           M == Len(OnDisk(v, o))
           N == Len(OnDisk(v, o)')
           x == Left(c, v, o)
           y == Left(c, v, o)'
<1>3. M + T <= 3 * Chunks /\ N + y <= M + x /\ U + x <= T + y
  BY <1>1 DEF Room
<1>4. N \in Nat /\ M \in Nat /\ T \in Nat /\ U \in Nat /\ x \in Int /\ y \in Int /\ Chunks \in Nat
  BY <1>1, <1>2
<1> HIDE DEF T, U, M, N, x, y
<1>5. N + U <= 3 * Chunks
  BY <1>3, <1>4
<1>6. QED  BY <1>5 DEF Room, N, U

\* The room that is left bounds the file.
LEMMA RoomBounds ==
  ASSUME LTypes, NEW v \in Version, NEW o \in {"tmp", "final"}, Room(v, o)
  PROVE  /\ OnDisk(v, o) \in Bytes /\ Len(OnDisk(v, o)) \in 0..(3 * Chunks)
         /\ OnDisk(v, o) \in File
<1>1. OnDisk(v, o) \in Bytes
  BY DEF OnDisk, LTypes
<1>2. Len(OnDisk(v, o)) \in Nat
  BY <1>1 DEF Bytes
<1>3. Len(OnDisk(v, o)) <= 3 * Chunks
  <2>1. /\ Chunks \in Nat
        /\ Left("loop", v, o) \in 0..(Chunks - 1)
        /\ Left("api", v, o) \in 0..(Chunks - 1)
        /\ Left("api2", v, o) \in 0..(Chunks - 1)
    BY LeftRange
  <2>2. QED  BY <1>2, <2>1 DEF Room, Total
<1>4. Len(OnDisk(v, o)) \in 0..(3 * Chunks)
  BY <1>2, <1>3, LeftRange
<1>5. OnDisk(v, o) \in [1..Len(OnDisk(v, o)) -> 0..Chunks]
  BY <1>1, LenProperties DEF Bytes
<1>6. QED  BY <1>1, <1>4, <1>5 DEF File

-----------------------------------------------------------------------------
(* A step of c among its labels, and what it leaves of the others.             *)

SameOthers(c) ==
  \A d \in Callers \ {c} :
    /\ pc'[d] = pc[d] /\ man'[d] = man[d] /\ from'[d] = from[d] /\ seen'[d] = seen[d]
    /\ fd'[d].append = fd[d].append

LEMMA OthersKeep ==
  ASSUME LInv, NEW c \in Callers, LTypes', SameOthers(c), InHand(c)',
         \A v \in Version, o \in {"tmp", "final"} : Room(v, o)'
  PROVE  LInv'
<1>1. \A d \in Callers \ {c} : InHand(d)'
  BY DEF LInv, InHand, SameOthers
<1>2. QED  BY <1>1 DEF LInv

\* Most steps: c neither downloads after it nor touches a file.
LEMMA Quiet ==
  ASSUME LInv, NEW c \in Callers, NEW l \in Label \ {"get", "stream"},
         pc' = [pc EXCEPT ![c] = l], LTypes', InHand(c)',
         UNCHANGED <<tmp, final, fd>>,
         \A d \in Callers \ {c} : man'[d] = man[d] /\ from'[d] = from[d] /\ seen'[d] = seen[d]
  PROVE  LInv'
<1>1. pc'[c] = l /\ \A d \in Callers \ {c} : pc'[d] = pc[d]
  BY DEF LInv, LTypes
<1>2. SameOthers(c)
  BY <1>1 DEF SameOthers
<1>3. ASSUME NEW v \in Version, NEW o \in {"tmp", "final"} PROVE Room(v, o)'
  <2>1. Left(c, v, o)' = 0
    BY <1>1 DEF Left, Appends
  <2>2. \A d \in Callers \ {c} : Left(d, v, o)' = Left(d, v, o)
    BY <1>1 DEF Left, Appends
  <2>3. Room(v, o) /\ OnDisk(v, o)' = OnDisk(v, o)
    BY DEF LInv, OnDisk
  <2>4. /\ Len(OnDisk(v, o)) \in Nat /\ Left(c, v, o) \in 0..(Chunks - 1)
        /\ \A d : Left(d, v, o) \in 0..(Chunks - 1)
        /\ Chunks \in Nat
    BY <2>3, RoomBounds, LeftRange DEF LInv
  <2>5. \A d \in Callers \ {c} : Left(d, v, o)' <= Left(d, v, o)
    BY <2>2, <2>4
  <2>6. Len(OnDisk(v, o)') + Left(c, v, o)' <= Len(OnDisk(v, o)) + Left(c, v, o)
    BY <2>1, <2>3, <2>4
  <2>7. QED  BY <2>3, <2>4, <2>5, <2>6, RoomKept
<1>4. QED  BY <1>2, <1>3, OthersKeep

-----------------------------------------------------------------------------
(* The actions, whoever else is at an await.                                   *)

LEMMA CheckedLoose ==
  ASSUME LInv, overlapped' \in BOOLEAN, NEW c \in Callers, NEW m \in Manifest \cup {NoManifest}, Checked(c, m),
         etag' \in Page \cup {NoPage}, cached' \in Manifest \cup {NoManifest},
         UNCHANGED <<disk, world, locals>>
  PROVE  LInv'
<1>1. PICK l \in {"idle", "download"} : pc' = [pc EXCEPT ![c] = l]
  BY DEF Checked, GoOn, Return, Await
<1>2. pending' \in Manifest \cup {NoManifest} /\ baton' \in Callers \cup {"none"}
  BY DEF Checked, GoOn, Return, Await, LInv, LTypes
<1>3. pc' \in [Callers -> Label] /\ pc'[c] = l
  BY <1>1 DEF LInv, LTypes, Label
<1>4. LTypes'
  BY <1>2, <1>3 DEF LInv, LTypes, Checked, disk, world, locals
<1>5. InHand(c)'
  BY <1>3 DEF InHand
<1>6. QED  BY <1>1, <1>4, <1>5, Quiet DEF Label, disk, locals

LEMMA CheckLoose == ASSUME LInv, overlapped' \in BOOLEAN, NEW c \in Callers, Check(c) PROVE LInv'
<1>1. pc' = [pc EXCEPT ![c] = "query"] /\ baton' = "none"
  BY DEF Check, Await
<1>2. pc' \in [Callers -> Label] /\ pc'[c] = "query"
  BY <1>1 DEF LInv, LTypes, Label
<1>4. /\ sent' \in [Callers -> Page \cup {NoPage}] /\ seen' \in [Callers -> 0..MaxVersion]
  BY DEF LInv, LTypes, Check, Version
<1>5. LTypes'
  BY <1>1, <1>2, <1>4 DEF LInv, LTypes, Check, disk, world, checker
<1>6. InHand(c)'
  BY <1>2 DEF InHand
<1>7. \A d \in Callers \ {c} : man'[d] = man[d] /\ from'[d] = from[d] /\ seen'[d] = seen[d]
  BY DEF Check, LInv, LTypes
<1>8. QED  BY <1>1, <1>5, <1>6, <1>7, Quiet DEF Label, Check, disk

LEMMA QueryAnsweredLoose == ASSUME LInv, overlapped' \in BOOLEAN, NEW c \in Callers, QueryAnswered(c) PROVE LInv'
<1>1. etag' = page /\ page \in Page /\ page.version \in Version
  BY DEF QueryAnswered, LInv, LTypes, Page
<1>2. CASE page.version > seen[c] /\ page.whole
  <2>1. /\ pc' = [pc EXCEPT ![c] = "sums"] /\ baton' = "none"
        /\ man' = [man EXCEPT ![c] = [version |-> page.version, hashed |-> FALSE]]
        /\ UNCHANGED <<updater, disk, world, cached, sent, seen, from, fd>>
    BY <1>2 DEF QueryAnswered, Await
  <2>2. pc' \in [Callers -> Label] /\ pc'[c] = "sums"
    BY <2>1 DEF LInv, LTypes, Label
  <2>3. /\ man' \in [Callers -> Manifest \cup {NoManifest}] /\ man'[c] \in Manifest
        /\ \A d \in Callers \ {c} : man'[d] = man[d]
    BY <1>1, <2>1 DEF LInv, LTypes, Manifest
  <2>4. LTypes'
    BY <1>1, <2>1, <2>2, <2>3 DEF LInv, LTypes, updater, disk, world
  <2>5. InHand(c)'
    BY <2>2, <2>3 DEF InHand
  <2>6. QED  BY <2>1, <2>3, <2>4, <2>5, Quiet DEF Label, disk
<1>3. CASE ~(page.version > seen[c] /\ page.whole)
  <2>1. /\ Checked(c, NoManifest) /\ cached' \in Manifest \cup {NoManifest}
        /\ UNCHANGED <<disk, world, locals>>
    BY <1>3 DEF QueryAnswered, locals, LInv, LTypes
  <2>2. QED  BY <1>1, <2>1, CheckedLoose
<1>4. QED  BY <1>2, <1>3

LEMMA QueryRaisesLoose == ASSUME LInv, overlapped' \in BOOLEAN, NEW c \in Callers, QueryRaises(c) PROVE LInv'
<1>1. /\ Raise(c) /\ etag' \in {etag, page}
      /\ UNCHANGED <<disk, world, updater, cached, locals>>
  BY DEF QueryRaises
<1>2. PICK l \in {"idle", "ended"} : pc' = [pc EXCEPT ![c] = l]
  BY <1>1 DEF Raise, Await
<1>3. pc' \in [Callers -> Label] /\ pc'[c] = l /\ baton' = "none"
  BY <1>1, <1>2 DEF LInv, LTypes, Label, Raise, Await
<1>4. LTypes'
  BY <1>1, <1>3 DEF LInv, LTypes, disk, world, updater, locals
<1>5. InHand(c)'
  BY <1>3 DEF InHand
<1>6. QED  BY <1>1, <1>2, <1>4, <1>5, Quiet DEF Label, disk, locals

LEMMA QueryLoose ==
  ASSUME LInv, overlapped' \in BOOLEAN, NEW c \in Callers, QueryNothing(c) \/ QueryNotModified(c) \/ SumsAnswered(c)
  PROVE  LInv'
<1>1. CASE QueryNothing(c) \/ QueryNotModified(c)
  <2>1. /\ \E m \in Manifest \cup {NoManifest} : Checked(c, m)
        /\ UNCHANGED <<disk, world, checker, locals>>
    BY <1>1 DEF QueryNothing, QueryNotModified, LInv, LTypes
  <2>2. QED  BY <2>1, CheckedLoose DEF checker, LInv, LTypes
<1>2. CASE SumsAnswered(c)
  <2>1. PICK ok \in BOOLEAN : /\ cached' = [man[c] EXCEPT !.hashed = ok]
                             /\ Checked(c, [man[c] EXCEPT !.hashed = ok])
    BY <1>2 DEF SumsAnswered
  <2>2. man[c] \in Manifest /\ UNCHANGED <<disk, world, etag, locals>>
    BY <1>2 DEF SumsAnswered, At, LInv, InHand
  <2>3. [man[c] EXCEPT !.hashed = ok] \in Manifest
    BY <2>2 DEF Manifest
  <2>4. QED  BY <2>1, <2>2, <2>3, CheckedLoose DEF LInv, LTypes
<1>3. QED  BY <1>1, <1>2

\* c may append what the .tmp lacks of a wheel: with that there is room for the others.
LEMMA BeginDownloadLoose == ASSUME LInv, overlapped' \in BOOLEAN, NEW c \in Callers, BeginDownload(c) PROVE LInv'
<1>0. UNCHANGED <<disk, world, checker, current, previous, pending, path, sent, seen, fd>>
  BY DEF BeginDownload
<1>1. CASE pending = NoManifest
  <2>1. pc' = [pc EXCEPT ![c] = "idle"] /\ baton' = "none" /\ UNCHANGED <<flag, man, from>>
    BY <1>1 DEF BeginDownload, Return, Await
  <2>2. pc' \in [Callers -> Label] /\ pc'[c] = "idle"
    BY <2>1 DEF LInv, LTypes, Label
  <2>3. LTypes'
    BY <1>0, <2>1, <2>2 DEF LInv, LTypes, disk, world, checker
  <2>4. InHand(c)'
    BY <2>2 DEF InHand
  <2>5. QED  BY <1>0, <2>1, <2>3, <2>4, Quiet DEF Label, disk
<1>2. CASE pending # NoManifest
  <2> DEFINE w == pending.version
  <2>1. /\ pc' = [pc EXCEPT ![c] = "get"] /\ baton' = "none" /\ flag' = "downloading"
        /\ man' = [man EXCEPT ![c] = pending]
        /\ from' = [from EXCEPT ![c] = Size(tmp[w])]
    BY <1>2 DEF BeginDownload, Await
  <2>2. pending \in Manifest /\ w \in Version
    BY <1>2 DEF LInv, LTypes, Manifest
  <2>3. /\ Room(w, "tmp") /\ OnDisk(w, "tmp") = tmp[w]
        /\ tmp[w] \in Bytes /\ Len(tmp[w]) \in 0..(3 * Chunks)
    BY <2>2, RoomBounds DEF LInv, OnDisk
  <2>4. Size(tmp[w]) \in 0..(3 * Chunks) /\ Size(tmp[w]) \in {0, Len(tmp[w])}
    BY <2>3, LeftRange DEF Size
  <2>5. /\ pc' \in [Callers -> Label] /\ man' \in [Callers -> Manifest \cup {NoManifest}]
        /\ from' \in [Callers -> 0..(3 * Chunks)]
        /\ pc'[c] = "get" /\ man'[c] = pending /\ from'[c] = Size(tmp[w])
        /\ \A d \in Callers \ {c} : pc'[d] = pc[d] /\ man'[d] = man[d] /\ from'[d] = from[d]
    BY <2>1, <2>2, <2>4 DEF LInv, LTypes, Label
  <2>6. LTypes'
    BY <1>0, <2>1, <2>5 DEF LInv, LTypes, disk, world, checker
  <2>7. InHand(c)'
    BY <2>2, <2>5 DEF InHand
  <2>8. SameOthers(c)
    BY <1>0, <2>5 DEF SameOthers
  <2>9. ASSUME NEW v \in Version, NEW o \in {"tmp", "final"} PROVE Room(v, o)'
    <3>1. /\ Room(v, o) /\ OnDisk(v, o)' = OnDisk(v, o) /\ Len(OnDisk(v, o)) \in 0..(3 * Chunks)
          /\ \A d \in Callers \ {c} : Left(d, v, o)' = Left(d, v, o)
      <4>1. Room(v, o) /\ OnDisk(v, o)' = OnDisk(v, o)
        BY <1>0 DEF LInv, OnDisk, disk
      <4>2. Len(OnDisk(v, o)) \in 0..(3 * Chunks)
        BY <4>1, RoomBounds DEF LInv
      <4>3. QED  BY <1>0, <2>5, <4>1, <4>2 DEF Left, Appends
    <3>2. /\ Chunks \in Nat /\ Chunks >= 1
          /\ \A d : Left(d, v, o) \in 0..(Chunks - 1) /\ Left(d, v, o)' \in 0..(Chunks - 1)
      BY LeftRange
    <3>3. \A d \in Callers \ {c} : Left(d, v, o)' <= Left(d, v, o)
      BY <3>1, <3>2
    <3>4. CASE Left(c, v, o)' = 0
      <4>1. Len(OnDisk(v, o)') + Left(c, v, o)' <= Len(OnDisk(v, o)) + Left(c, v, o)
        BY <3>1, <3>2, <3>4
      <4>2. Len(OnDisk(v, o)) \in Nat /\ Len(OnDisk(v, o)') \in Nat
        BY <3>1, <3>2
      <4>3. QED  BY <3>1, <3>3, <4>1, <4>2, RoomKept
    <3>5. CASE Left(c, v, o)' # 0
      <4>1. o = "tmp" /\ v = w /\ Left(c, v, o)' = Chunks - from'[c] /\ from'[c] # 0
        BY <2>5, <3>5, <3>2 DEF Left, Appends
      <4>2. from'[c] = Len(tmp[w]) /\ OnDisk(v, o)' = tmp[w]
        BY <2>3, <2>4, <2>5, <3>1, <4>1
      <4>3. Total(v, o)' <= Left(c, v, o)' + 2 * (Chunks - 1) /\ Total(v, o)' \in Nat
        BY <3>3, TotalMoves
      <4> DEFINE T == Total(v, o)'
                 n == Len(tmp[w])
      <4>4. T <= (Chunks - n) + 2 * (Chunks - 1) /\ n \in Nat /\ T \in Nat
        BY <2>3, <4>1, <4>2, <4>3
      <4> HIDE DEF T, n
      <4>5. n + T <= 3 * Chunks
        BY <3>2, <4>4
      <4>6. QED  BY <4>2, <4>5 DEF Room, T, n
    <3>6. QED  BY <3>4, <3>5
  <2>10. QED  BY <2>6, <2>7, <2>8, <2>9, OthersKeep
<1>3. QED  BY <1>1, <1>2

LEMMA FailLoose ==
  ASSUME LInv, overlapped' \in BOOLEAN, NEW c \in Callers, DownloadError(c) \/ PipFails(c) PROVE LInv'
<1>1. /\ pc' = [pc EXCEPT ![c] = "idle"] /\ baton' = "none" /\ flag' = "failed"
      /\ UNCHANGED <<disk, world, checker, current, previous, pending, path, locals>>
  BY DEF DownloadError, PipFails, Fail, Return, Await
<1>2. pc' \in [Callers -> Label] /\ pc'[c] = "idle"
  BY <1>1 DEF LInv, LTypes, Label
<1>3. LTypes'
  BY <1>1, <1>2 DEF LInv, LTypes, disk, world, checker, locals
<1>4. InHand(c)'
  BY <1>2 DEF InHand
<1>5. QED  BY <1>1, <1>3, <1>4, Quiet DEF Label, disk, locals

\* A file that c's step leaves as it is, and gives nobody more to append.
LEMMA StillRoom ==
  ASSUME LInv, NEW c \in Callers, NEW v \in Version, NEW o \in {"tmp", "final"},
         \A d \in Callers : Left(d, v, o)' <= Left(d, v, o),
         OnDisk(v, o)' = OnDisk(v, o)
  PROVE  Room(v, o)'
<1>1. Room(v, o) /\ Len(OnDisk(v, o)) \in Nat /\ Len(OnDisk(v, o)') \in Nat
  BY RoomBounds, LeftRange DEF LInv
<1>2. Left(c, v, o) \in Nat /\ Left(c, v, o)' \in Nat
  BY LeftRange
<1>3. Len(OnDisk(v, o)') + Left(c, v, o)' <= Len(OnDisk(v, o)) + Left(c, v, o)
  BY <1>1, <1>2
<1>4. QED  BY <1>1, <1>3, RoomKept

\* Who has the same in hand as before may append no more than before.
LEMMA SameLeft ==
  ASSUME NEW d, NEW v, NEW o,
         d \in Callers => /\ pc'[d] = pc[d] /\ man'[d] = man[d] /\ from'[d] = from[d]
                          /\ fd'[d] = fd[d] \/ fd'[d].on \notin {"tmp", "final"},
         o \in {"tmp", "final"}
  PROVE  Left(d, v, o)' <= Left(d, v, o)
<1>1. Appends(d, v, o)' => Appends(d, v, o)
  BY DEF Appends
<1>2. CASE Appends(d, v, o)'
  BY <1>1, <1>2, LeftRange DEF Left, Appends
<1>3. CASE ~Appends(d, v, o)'
  BY <1>3, LeftRange DEF Left
<1>4. QED  BY <1>2, <1>3

LEMMA ResponseLoose == ASSUME LInv, overlapped' \in BOOLEAN, NEW c \in Callers, Response(c) PROVE LInv'
<1> DEFINE w == man[c].version
           D == [on : {"tmp", "final", "gone"}, append : BOOLEAN]
<1>1. PICK partial \in BOOLEAN :
        LET resume == partial /\ from[c] > 0 IN
        /\ from' = [from EXCEPT ![c] = IF resume THEN @ ELSE 0]
        /\ tmp' = [tmp EXCEPT ![w] = IF resume /\ @ # NoFile THEN @ ELSE <<>>]
        /\ fd' = [fd EXCEPT ![c] = [on |-> "tmp", append |-> resume]]
  BY DEF Response
<1>2. /\ pc[c] = "get" /\ from[c] < Chunks /\ man[c] \in Manifest /\ w \in Version
      /\ pc' = [pc EXCEPT ![c] = "stream"] /\ baton' = "none"
      /\ UNCHANGED <<final, saved, world, updater, checker, man, sent, seen>>
  BY DEF Response, At, Await, LInv, InHand, Manifest
<1>3. /\ pc' \in [Callers -> Label] /\ pc'[c] = "stream"
      /\ \A d \in Callers \ {c} : pc'[d] = pc[d]
  BY <1>2 DEF LInv, LTypes, Label
<1>4. \E resume \in BOOLEAN :
        /\ resume => from[c] > 0
        /\ from' = [from EXCEPT ![c] = IF resume THEN @ ELSE 0]
        /\ tmp' = [tmp EXCEPT ![w] = IF resume /\ @ # NoFile THEN @ ELSE <<>>]
        /\ fd' = [fd EXCEPT ![c] = [on |-> "tmp", append |-> resume]]
  BY <1>1, Zenon
<1>5. PICK resume \in BOOLEAN :
        /\ resume => from[c] > 0
        /\ from' = [from EXCEPT ![c] = IF resume THEN @ ELSE 0]
        /\ tmp' = [tmp EXCEPT ![w] = IF resume /\ @ # NoFile THEN @ ELSE <<>>]
        /\ fd' = [fd EXCEPT ![c] = [on |-> "tmp", append |-> resume]]
  BY <1>4
<1>6. /\ fd' \in [Callers -> D] /\ fd'[c] = [on |-> "tmp", append |-> resume]
      /\ \A d \in Callers \ {c} : fd'[d] = fd[d]
  BY <1>5 DEF LInv, LTypes
<1>7. /\ from' \in [Callers -> 0..(3 * Chunks)]
      /\ from'[c] = (IF resume THEN from[c] ELSE 0)
      /\ \A d \in Callers \ {c} : from'[d] = from[d]
  <2>1. 0 \in 0..(3 * Chunks)
    BY LeftRange
  <2>2. QED  BY <1>5, <2>1 DEF LInv, LTypes
<1>8. /\ tmp' \in [Version -> Bytes] /\ tmp'[w] \in {tmp[w], <<>>}
      /\ ~resume => tmp'[w] = <<>>
      /\ \A v \in Version \ {w} : tmp'[v] = tmp[v]
  <2>1. <<>> \in Bytes
    BY DEF Bytes
  <2>2. QED  BY <1>2, <1>5, <2>1 DEF LInv, LTypes
<1>9. LTypes'
  BY <1>2, <1>3, <1>6, <1>7, <1>8 DEF LInv, LTypes, world, updater, checker
<1>10. InHand(c)'
  <2>1. from'[c] <= Chunks /\ (fd'[c].append => from'[c] > 0)
    BY <1>2, <1>5, <1>6, <1>7, LeftRange DEF LInv, LTypes
  <2>2. QED  BY <1>2, <1>3, <2>1 DEF InHand
<1>11. SameOthers(c)
  BY <1>2, <1>3, <1>6, <1>7 DEF SameOthers
<1>12. ASSUME NEW v \in Version, NEW o \in {"tmp", "final"} PROVE Room(v, o)'
  <2>1. CASE OnDisk(v, o)' = <<>>
    <3>1. Len(OnDisk(v, o)') = 0
      BY <2>1
    <3>2. QED  BY <3>1, ShortFits
  <2>2. CASE OnDisk(v, o)' # <<>>
    <3>1. OnDisk(v, o)' = OnDisk(v, o)
      BY <1>2, <1>8, <2>2 DEF OnDisk
    <3>2. \A d \in Callers \ {c} : Left(d, v, o)' <= Left(d, v, o)
      BY <1>2, <1>3, <1>6, <1>7, SameLeft
    <3>3. Appends(c, v, o)' => Appends(c, v, o) /\ from'[c] = from[c]
      BY <1>2, <1>3, <1>6, <1>7 DEF Appends
    <3>4. Left(c, v, o)' <= Left(c, v, o)
      BY <3>3, LeftRange DEF Left, Appends
    <3>5. QED  BY <3>1, <3>2, <3>4, StillRoom
  <2>3. QED  BY <2>1, <2>2
<1>13. QED  BY <1>9, <1>10, <1>11, <1>12, OthersKeep

\* What one chunk makes of a file, appended or written at its place.
LEMMA Written ==
  ASSUME NEW f \in Bytes, NEW i \in 1..Chunks
  PROVE  /\ Append(f, i) \in Bytes /\ Len(Append(f, i)) = Len(f) + 1
         /\ WriteAt(f, i, i) \in Bytes
         /\ Len(WriteAt(f, i, i)) = IF i > Len(f) THEN i ELSE Len(f)
<1>1. Chunks \in Nat /\ i \in 0..Chunks /\ 0 \in 0..Chunks /\ f \in Seq(0..Chunks)
  BY LeftRange DEF Bytes
<1>2. Append(f, i) \in Bytes /\ Len(Append(f, i)) = Len(f) + 1
  BY <1>1 DEF Bytes
<1> DEFINE n == IF i > Len(f) THEN i ELSE Len(f)
           g == [j \in 1..n |-> IF j = i THEN i ELSE IF j <= Len(f) THEN f[j] ELSE 0]
<1>3. WriteAt(f, i, i) = g
  BY DEF WriteAt
<1>4. n \in Nat /\ Len(f) \in Nat
  BY <1>1
<1>5. \A j \in 1..Len(f) : f[j] \in 0..Chunks
  BY <1>1
<1>6. \A j \in 1..n : (IF j = i THEN i ELSE IF j <= Len(f) THEN f[j] ELSE 0) \in 0..Chunks
  BY <1>1, <1>4, <1>5
<1> HIDE DEF n
<1>7. g \in Seq(0..Chunks) /\ Len(g) = n
  BY <1>4, <1>6
<1>8. QED  BY <1>2, <1>3, <1>7 DEF Bytes, n

\* A chunk that is appended takes a part of what its caller had left; one that is
\* written at its place makes the file no longer than a wheel.
LEMMA ChunkLoose == ASSUME LInv, overlapped' \in BOOLEAN, NEW c \in Callers, Chunk(c) PROVE LInv'
<1> DEFINE w == man[c].version
           i == from[c] + 1
           Write(f) == IF fd[c].append THEN Append(f, i) ELSE WriteAt(f, i, i)
<1>1. /\ pc[c] = "stream" /\ from[c] < Chunks /\ man[c] \in Manifest /\ w \in Version
      /\ fd[c].append => from[c] > 0
      /\ pc' = [pc EXCEPT ![c] = "stream"] /\ baton' = "none"
      /\ from' = [from EXCEPT ![c] = i]
      /\ UNCHANGED <<saved, world, updater, checker, man, sent, seen, fd>>
  BY DEF Chunk, At, Await, LInv, InHand, Manifest
<1>2. /\ tmp' = IF fd[c].on = "tmp" THEN [tmp EXCEPT ![w] = Write(tmp[w])] ELSE tmp
      /\ final' = IF fd[c].on = "final" THEN [final EXCEPT ![w] = Write(final[w])] ELSE final
  BY DEF Chunk
<1>3. /\ Chunks \in Nat /\ Chunks >= 1
      /\ from[c] \in Nat /\ i \in 1..Chunks /\ i \in 0..(3 * Chunks) /\ i = from[c] + 1
  BY <1>1, LeftRange DEF LInv, LTypes
<1>4. \A f \in Bytes : /\ Write(f) \in Bytes /\ Len(f) \in Nat
                       /\ Len(Write(f)) = IF fd[c].append THEN Len(f) + 1
                                          ELSE IF i > Len(f) THEN i ELSE Len(f)
  <2>1. \A f \in Bytes : Len(f) \in Nat
    BY LenProperties DEF Bytes
  <2>2. QED  BY <1>3, <2>1, Written
<1> HIDE DEF i, Write
<1>5. /\ pc' \in [Callers -> Label] /\ pc'[c] = "stream" /\ from'[c] = i
      /\ from' \in [Callers -> 0..(3 * Chunks)]
      /\ \A d \in Callers \ {c} : pc'[d] = pc[d] /\ from'[d] = from[d]
  BY <1>1, <1>3 DEF LInv, LTypes, Label
<1>6. /\ tmp' \in [Version -> Bytes] /\ final' \in [Version -> Bytes]
      /\ \A v \in Version, o \in {"tmp", "final"} :
           OnDisk(v, o)' = IF v = w /\ o = fd[c].on THEN Write(OnDisk(v, o)) ELSE OnDisk(v, o)
  <2>1. tmp[w] \in Bytes /\ final[w] \in Bytes
    BY <1>1 DEF LInv, LTypes
  <2>2. Write(tmp[w]) \in Bytes /\ Write(final[w]) \in Bytes
    BY <1>4, <2>1
  <2>3. QED  BY <1>1, <1>2, <2>2 DEF LInv, LTypes, OnDisk
<1>7. LTypes'
  BY <1>1, <1>5, <1>6 DEF LInv, LTypes, world, updater, checker
<1>8. InHand(c)'
  <2>1. i > 0 /\ i <= Chunks
    BY <1>3
  <2>2. QED  BY <1>1, <1>5, <2>1 DEF InHand
<1>9. SameOthers(c)
  BY <1>1, <1>5 DEF SameOthers
<1>10. ASSUME NEW v \in Version, NEW o \in {"tmp", "final"} PROVE Room(v, o)'
  <2>1. \A d \in Callers \ {c} : Left(d, v, o)' <= Left(d, v, o)
    BY <1>1, <1>5, SameLeft
  <2>2. Room(v, o) /\ OnDisk(v, o) \in Bytes
    BY RoomBounds DEF LInv
  <2>3. CASE ~(v = w /\ o = fd[c].on)
    <3>1. ~Appends(c, v, o)'
      BY <1>1, <1>5, <2>3 DEF Appends
    <3>2. Left(c, v, o)' <= Left(c, v, o)
      BY <3>1, LeftRange DEF Left
    <3>3. QED  BY <1>6, <2>1, <2>3, <3>2, StillRoom
  <2>4. CASE v = w /\ o = fd[c].on /\ fd[c].append
    <3>1. Left(c, v, o) = Chunks - from[c]
      BY <1>1, <1>3, <2>4 DEF Left, Appends
    <3>2. Left(c, v, o)' = Chunks - i
      <4>1. CASE i < Chunks
        BY <1>1, <1>3, <1>5, <2>4, <4>1 DEF Left, Appends
      <4>2. CASE i = Chunks
        <5>1. ~Appends(c, v, o)'
          BY <1>3, <1>5, <4>2 DEF Appends
        <5>2. QED  BY <1>3, <4>2, <5>1 DEF Left
      <4>3. QED  BY <1>3, <4>1, <4>2
    <3>3. Len(OnDisk(v, o)') = Len(OnDisk(v, o)) + 1 /\ Len(OnDisk(v, o)) \in Nat
      BY <1>4, <1>6, <2>2, <2>4
    <3>4. Len(OnDisk(v, o)') + Left(c, v, o)' <= Len(OnDisk(v, o)) + Left(c, v, o)
      BY <1>3, <3>1, <3>2, <3>3
    <3>5. Len(OnDisk(v, o)') \in Nat
      BY <3>3
    <3>6. QED  BY <2>1, <2>2, <3>3, <3>4, <3>5, RoomKept
  <2>5. CASE v = w /\ o = fd[c].on /\ ~fd[c].append
    <3>1. Left(c, v, o) = 0 /\ Left(c, v, o)' = 0
      BY <1>1, <1>5, <2>5 DEF Left, Appends
    <3>2. /\ Len(OnDisk(v, o)') = IF i > Len(OnDisk(v, o)) THEN i ELSE Len(OnDisk(v, o))
          /\ Len(OnDisk(v, o)) \in Nat /\ Len(OnDisk(v, o)') \in Nat
      BY <1>3, <1>4, <1>6, <2>2, <2>5
    <3>3. CASE i > Len(OnDisk(v, o))
      <4>1. Total(v, o)' <= 2 * (Chunks - 1) /\ Total(v, o)' \in Nat
        BY <1>3, <2>1, <3>1, TotalMoves
      <4>2. Len(OnDisk(v, o)') <= Chunks
        BY <1>3, <3>2, <3>3
      <4> DEFINE T == Total(v, o)'
                 n == Len(OnDisk(v, o)')
      <4>3. T <= 2 * (Chunks - 1) /\ n <= Chunks /\ n \in Nat /\ T \in Nat
        BY <3>2, <4>1, <4>2
      <4> HIDE DEF T, n
      <4>4. n + T <= 3 * Chunks
        BY <1>3, <4>3
      <4>5. QED  BY <4>4 DEF Room, T, n
    <3>4. CASE ~(i > Len(OnDisk(v, o)))
      <4>1. Len(OnDisk(v, o)') + Left(c, v, o)' <= Len(OnDisk(v, o)) + Left(c, v, o)
        BY <3>1, <3>2, <3>4
      <4>2. QED  BY <2>1, <2>2, <3>2, <4>1, RoomKept
    <3>5. QED  BY <3>3, <3>4
  <2>6. QED  BY <2>3, <2>4, <2>5
<1>11. QED  BY <1>7, <1>8, <1>9, <1>10, OthersKeep

\* Whoever had the .tmp open has the final file open, and a file that is gone
\* takes no more of what is written to it.
LEMMA Redirected ==
  ASSUME NEW c \in Callers, NEW v,
         NEW open \in [Callers -> [on : {"tmp", "final", "gone"}, append : BOOLEAN]]
  PROVE  /\ Unlinked(open, v) \in [Callers -> [on : {"tmp", "final", "gone"}, append : BOOLEAN]]
         /\ \A d \in Callers :
              /\ Unlinked(open, v)[d].append = open[d].append
              /\ man[d].version # v => Unlinked(open, v)[d] = open[d]
              /\ Unlinked(open, v)[d] = open[d] \/ Unlinked(open, v)[d].on = "gone"
<1>1. \A d \in Callers : open[d] \in [on : {"tmp", "final", "gone"}, append : BOOLEAN]
  OBVIOUS
<1>2. \A d \in Callers : /\ [open[d] EXCEPT !.on = "gone"]
                              \in [on : {"tmp", "final", "gone"}, append : BOOLEAN]
                         /\ [open[d] EXCEPT !.on = "gone"].append = open[d].append
                         /\ [open[d] EXCEPT !.on = "gone"].on = "gone"
  BY <1>1
<1>3. \A d \in Callers : Unlinked(open, v)[d] =
         IF man[d].version = v /\ open[d].on = "final"
         THEN [open[d] EXCEPT !.on = "gone"] ELSE open[d]
  BY DEF Unlinked
<1>4. QED  BY <1>1, <1>2, <1>3 DEF Unlinked

LEMMA RenamedKeeps ==
  ASSUME LTypes, NEW c \in Callers, NEW v
  PROVE  /\ Renamed(c, v) \in [Callers -> [on : {"tmp", "final", "gone"}, append : BOOLEAN]]
         /\ \A d \in Callers :
              /\ Renamed(c, v)[d].append = fd[d].append
              /\ man[d].version # v => Renamed(c, v)[d] = fd[d]
              /\ d # c /\ pc[d] = "stream" /\ man[d].version = v /\ Renamed(c, v)[d].on = "final"
                   => fd[d].on = "tmp"
<1> DEFINE D == [on : {"tmp", "final", "gone"}, append : BOOLEAN]
<1>1. \A d \in Callers : fd[d] \in D
  BY DEF LTypes
<1>2. \A d \in Callers, x \in {"final", "gone"} :
        /\ [fd[d] EXCEPT !.on = x] \in D
        /\ [fd[d] EXCEPT !.on = x].append = fd[d].append /\ [fd[d] EXCEPT !.on = x].on = x
  BY <1>1
<1>3. \A d \in Callers : Renamed(c, v)[d] =
         IF d = c \/ pc[d] # "stream" \/ man[d].version # v THEN fd[d]
         ELSE [fd[d] EXCEPT !.on = IF fd[d].on = "tmp" THEN "final" ELSE "gone"]
  BY DEF Renamed
<1>4. Renamed(c, v) \in [Callers -> D]
  BY <1>1, <1>2 DEF Renamed
<1>5. ASSUME NEW d \in Callers
      PROVE  /\ Renamed(c, v)[d].append = fd[d].append
             /\ man[d].version # v => Renamed(c, v)[d] = fd[d]
             /\ d # c /\ pc[d] = "stream" /\ man[d].version = v /\ Renamed(c, v)[d].on = "final"
                  => fd[d].on = "tmp"
  <2>1. CASE d = c \/ pc[d] # "stream" \/ man[d].version # v
    BY <1>3, <2>1
  <2>2. CASE d # c /\ pc[d] = "stream" /\ man[d].version = v
    <3>1. Renamed(c, v)[d] = [fd[d] EXCEPT !.on = IF fd[d].on = "tmp" THEN "final" ELSE "gone"]
      BY <1>3, <2>2
    <3>2. QED  BY <1>2, <2>2, <3>1
  <2>3. QED  BY <2>1, <2>2
<1>6. QED  BY <1>4, <1>5

\* The final file takes over the room of the .tmp it was, with those who append to it.
LEMMA DownloadedLoose == ASSUME LInv, overlapped' \in BOOLEAN, NEW c \in Callers, Downloaded(c) PROVE LInv'
<1> DEFINE w == man[c].version
           D == [on : {"tmp", "final", "gone"}, append : BOOLEAN]
           bad == man[c].hashed /\ tmp[w] # Wheel
<1>1. /\ pc[c] = "stream" /\ from[c] = Chunks /\ man[c] \in Manifest /\ w \in Version
      /\ UNCHANGED <<saved, world, current, previous, pending, checker, man, sent, seen, from>>
  BY DEF Downloaded, At, LInv, InHand, Manifest
<1>2. PICK l \in {"idle", "install"} : pc' = [pc EXCEPT ![c] = l]
  BY DEF Downloaded, Fail, Return, Await, GoOn
<1>3. /\ pc' \in [Callers -> Label] /\ pc'[c] = l
      /\ \A d \in Callers \ {c} : pc'[d] = pc[d]
  BY <1>2 DEF LInv, LTypes, Label
<1>4. baton' \in Callers \cup {"none"} /\ flag' \in {"failed", "idle"} /\ path' \in 0..MaxVersion
  <2>1. w \in 0..MaxVersion
    BY <1>1 DEF Version
  <2>2. CASE tmp[w] = NoFile \/ bad
    BY <2>2 DEF Downloaded, Fail, Return, Await, LInv, LTypes
  <2>3. CASE tmp[w] # NoFile /\ ~bad
    BY <2>1, <2>3 DEF Downloaded, GoOn
  <2>4. QED  BY <2>2, <2>3
<1>5. InHand(c)'
  BY <1>1, <1>3 DEF InHand
<1>6. CASE tmp[w] = NoFile
  <2>1. UNCHANGED <<tmp, final, fd, path>>
    BY <1>6 DEF Downloaded
  <2>2. LTypes'
    BY <1>1, <1>3, <1>4, <2>1 DEF LInv, LTypes, world, checker
  <2>3. QED  BY <1>1, <1>2, <1>5, <2>1, <2>2, Quiet DEF Label
<1>7. CASE tmp[w] # NoFile
  <2>1. /\ tmp' = [tmp EXCEPT ![w] = NoFile]
        /\ final' = [final EXCEPT ![w] = IF bad THEN NoFile ELSE tmp[w]]
        /\ fd' = IF bad THEN Unlinked(Renamed(c, w), w) ELSE Renamed(c, w)
    BY <1>7 DEF Downloaded
  <2>2. NoFile \in Bytes /\ Len(NoFile) = 1
    BY LeftRange DEF NoFile, Bytes
  <2>3. /\ tmp' \in [Version -> Bytes] /\ final' \in [Version -> Bytes]
        /\ tmp'[w] = NoFile
        /\ final'[w] = IF bad THEN NoFile ELSE OnDisk(w, "tmp")
        /\ \A v \in Version \ {w}, o \in {"tmp", "final"} : OnDisk(v, o)' = OnDisk(v, o)
    <3>1. tmp[w] \in Bytes
      BY <1>1 DEF LInv, LTypes
    <3>2. (IF bad THEN NoFile ELSE tmp[w]) \in Bytes
      BY <2>2, <3>1
    <3> HIDE DEF bad
    <3>3. QED  BY <1>1, <2>1, <2>2, <3>2 DEF LInv, LTypes, OnDisk
  <2>4. /\ Renamed(c, w) \in [Callers -> D]
        /\ \A d \in Callers : /\ Renamed(c, w)[d].append = fd[d].append
                              /\ man[d].version # w => Renamed(c, w)[d] = fd[d]
    BY RenamedKeeps DEF LInv
  <2>5. /\ Unlinked(Renamed(c, w), w) \in [Callers -> D]
        /\ \A d \in Callers :
             /\ Unlinked(Renamed(c, w), w)[d].append = Renamed(c, w)[d].append
             /\ man[d].version # w => Unlinked(Renamed(c, w), w)[d] = Renamed(c, w)[d]
    BY <2>4, Redirected
  <2>6. /\ fd' \in [Callers -> D]
        /\ \A d \in Callers : fd'[d].append = fd[d].append
        /\ \A d \in Callers : man[d].version # w => fd'[d] = fd[d]
    BY <2>1, <2>4, <2>5
  <2>7. LTypes'
    BY <1>1, <1>3, <1>4, <2>3, <2>6 DEF LInv, LTypes, world, checker
  <2>8. SameOthers(c)
    BY <1>1, <1>3, <2>6 DEF SameOthers
  <2>9. ASSUME NEW v \in Version, NEW o \in {"tmp", "final"} PROVE Room(v, o)'
    <3>1. CASE v # w
      <4>1. ASSUME NEW d \in Callers PROVE Left(d, v, o)' <= Left(d, v, o)
        <5>1. CASE man[d].version = v
          <6>1. d # c => Left(d, v, o)' <= Left(d, v, o)
            BY <1>1, <1>3, <2>6, <3>1, <5>1, SameLeft
          <6>2. d = c => Left(d, v, o)' = 0
            BY <3>1, <5>1
          <6>3. QED  BY <6>1, <6>2, LeftRange
        <5>2. CASE man[d].version # v
          <6>1. Left(d, v, o)' = 0
            BY <1>1, <5>2 DEF Left, Appends
          <6>2. QED  BY <6>1, LeftRange
        <5>3. QED  BY <5>1, <5>2
      <4>2. QED  BY <2>3, <3>1, <4>1, StillRoom
    <3>2. CASE v = w /\ OnDisk(v, o)' = NoFile
      BY <2>2, <3>2, ShortFits
    <3>3. CASE v = w /\ o = "final" /\ ~bad
      <4>1. fd' = Renamed(c, w) /\ OnDisk(v, o)' = OnDisk(w, "tmp")
        <5>1. fd' = Renamed(c, w) /\ final'[w] = OnDisk(w, "tmp")
          BY <2>1, <2>3, <3>3
        <5>2. QED  BY <3>3, <5>1 DEF OnDisk
      <4>2. ASSUME NEW d PROVE Left(d, v, o)' <= Left(d, v, "tmp")
        <5>1. CASE Appends(d, v, o)'
          <6>1. /\ d \in Callers /\ pc'[d] = "stream" /\ man[d].version = w
                /\ fd'[d].append /\ fd'[d].on = "final" /\ from'[d] = from[d]
            BY <1>1, <3>3, <5>1 DEF Appends
          <6>2. d # c /\ pc[d] = "stream"
            BY <1>3, <6>1
          <6>3. fd[d].append /\ fd[d].on = "tmp"
            BY <4>1, <6>1, <6>2, RenamedKeeps DEF LInv
          <6>4. Appends(d, v, "tmp")
            BY <1>1, <5>1, <6>1, <6>2, <6>3 DEF Appends
          <6>5. QED  BY <5>1, <6>1, <6>4, LeftRange DEF Left, Appends
        <5>2. CASE ~Appends(d, v, o)'
          BY <5>2, LeftRange DEF Left
        <5>3. QED  BY <5>1, <5>2
      <4> DEFINE x == Left("loop", v, o)'
                 y == Left("api", v, o)'
                 z == Left("api2", v, o)'
                 k == Left("loop", v, "tmp")
                 m == Left("api", v, "tmp")
                 n == Left("api2", v, "tmp")
                 N == Len(OnDisk(w, "tmp"))
      <4>3. /\ x <= k /\ y <= m /\ z <= n /\ N \in Nat
            /\ x \in Nat /\ y \in Nat /\ z \in Nat /\ k \in Nat /\ m \in Nat /\ n \in Nat
        BY <1>1, <4>2, RoomBounds, LeftRange DEF LInv
      <4>4. N + (k + m + n) <= 3 * Chunks
        BY <1>1, <3>3 DEF LInv, Room, Total
      <4> HIDE DEF x, y, z, k, m, n, N
      <4>5. N + (x + y + z) <= 3 * Chunks
        BY <4>3, <4>4, LeftRange
      <4>6. QED  BY <4>1, <4>5 DEF Room, Total, x, y, z, N
    <3>4. v = w => o = "final" \/ OnDisk(v, o)' = NoFile
      BY <2>3 DEF OnDisk
    <3>5. v = w /\ o = "final" /\ bad => OnDisk(v, o)' = NoFile
      BY <2>3 DEF OnDisk
    <3>6. QED  BY <1>1, <3>1, <3>2, <3>3, <3>4, <3>5
  <2>10. QED  BY <1>5, <2>7, <2>8, <2>9, OthersKeep
<1>8. QED  BY <1>6, <1>7

LEMMA InstalledLoose == ASSUME LInv, overlapped' \in BOOLEAN, NEW c \in Callers, Installed(c) PROVE LInv'
<1>1. /\ pc[c] = "piped" /\ man[c] \in Manifest /\ man[c].version \in Version
      /\ previous' = current /\ current' = man[c].version /\ path' = 0
      /\ pending' = NoManifest /\ flag' = "idle"
      /\ UNCHANGED <<tmp, saved, world, checker, man, sent, seen, from>>
  BY DEF Installed, At, LInv, InHand, Manifest
<1>2. PICK l \in {"idle", "restart"} : pc' = [pc EXCEPT ![c] = l]
  BY DEF Installed, GoOn, Return, Await
<1>3. /\ pc' \in [Callers -> Label] /\ pc'[c] = l /\ baton' \in Callers \cup {"none"}
      /\ \A d \in Callers \ {c} : pc'[d] = pc[d]
  BY <1>2 DEF Installed, GoOn, Return, Await, LInv, LTypes, Label
<1>4. /\ fd' \in [Callers -> [on : {"tmp", "final", "gone"}, append : BOOLEAN]]
      /\ \A d \in Callers : fd'[d].append = fd[d].append
      /\ \A d \in Callers : fd'[d] = fd[d] \/ fd'[d].on = "gone"
  <2>1. fd' = fd \/ fd' = Unlinked(fd, path)
    BY DEF Installed
  <2>2. fd \in [Callers -> [on : {"tmp", "final", "gone"}, append : BOOLEAN]]
    BY DEF LInv, LTypes
  <2>3. QED  BY <2>1, <2>2, Redirected
<1>5. NoFile \in Bytes /\ Len(NoFile) = 1
  BY LeftRange DEF NoFile, Bytes
<1>6. /\ final' \in [Version -> Bytes]
      /\ \A v \in Version : final'[v] \in {final[v], NoFile}
  BY <1>5 DEF Installed, LInv, LTypes
<1>7. previous' \in 0..MaxVersion /\ path' \in 0..MaxVersion
  BY <1>1, OtaAssumption DEF LInv, LTypes, Version, OtaAssumption
<1>8. LTypes'
  BY <1>1, <1>3, <1>4, <1>6, <1>7 DEF LInv, LTypes, world, checker
<1>9. InHand(c)' /\ SameOthers(c)
  BY <1>1, <1>3, <1>4 DEF InHand, SameOthers
<1>10. ASSUME NEW v \in Version, NEW o \in {"tmp", "final"} PROVE Room(v, o)'
  <2>1. CASE OnDisk(v, o)' = NoFile
    BY <1>5, <2>1, ShortFits
  <2>2. CASE OnDisk(v, o)' # NoFile
    <3>1. OnDisk(v, o)' = OnDisk(v, o)
      BY <1>1, <1>6, <2>2 DEF OnDisk
    <3>2. \A d \in Callers \ {c} : Left(d, v, o)' <= Left(d, v, o)
      BY <1>1, <1>3, <1>4, SameLeft
    <3>3. Left(c, v, o)' <= Left(c, v, o)
      <4>1. Left(c, v, o)' = 0
        BY <1>3 DEF Left, Appends
      <4>2. QED  BY <4>1, LeftRange
    <3>4. QED  BY <3>1, <3>2, <3>3, StillRoom
  <2>3. QED  BY <2>1, <2>2
<1>11. QED  BY <1>8, <1>9, <1>10, OthersKeep

\* pip, the calls that begin and end without a file, and the restart that fails.
LEMMA RestLoose ==
  ASSUME LInv, overlapped' \in BOOLEAN, NEW c \in Callers,
         \/ BeginInstall(c) \/ PipInstalls(c) \/ BeginRollback(c) \/ PipRollsBack(c)
         \/ RolledBack(c) \/ BeginRestart(c) \/ RestartFails(c)
  PROVE  LInv'
<1>1. PICK l \in Label \ {"get", "stream", "sums", "install"} : pc' = [pc EXCEPT ![c] = l]
  BY DEF BeginInstall, PipInstalls, BeginRollback, PipRollsBack, RolledBack, BeginRestart,
         RestartFails, Return, Raise, Await, GoOn, Label
<1>2. pc' \in [Callers -> Label] /\ pc'[c] = l
  BY <1>1 DEF LInv, LTypes
<1>3. /\ UNCHANGED <<tmp, final, page, crashes, checker, pending, path, sent, from, fd>>
      /\ baton' \in Callers \cup {"none"}
      /\ flag' \in {"idle", "checking", "downloading", "installing", "restarting", "failed"}
  BY DEF BeginInstall, PipInstalls, BeginRollback, PipRollsBack, RolledBack, BeginRestart,
         RestartFails, Return, Raise, Await, GoOn, disk, world, updater, locals, LInv, LTypes
<1>4. /\ pc[c] = "piped" \/ l \in {"pip", "piped"} => man'[c] \in Manifest
      /\ man' \in [Callers -> Manifest \cup {NoManifest}]
      /\ \A d \in Callers \ {c} : man'[d] = man[d]
  <2>1. CASE BeginInstall(c)
    <3>1. pending # NoManifest => pending \in Manifest
      BY DEF LInv, LTypes
    <3>2. \/ man' = man /\ pc'[c] \in {"idle", "ended"} /\ pc[c] = "install"
          \/ pending \in Manifest /\ man' = [man EXCEPT ![c] = pending]
      BY <2>1, <3>1 DEF BeginInstall, Return, Await, At, LInv, LTypes
    <3>3. pc[c] # "piped"
      BY <2>1 DEF BeginInstall, At
    <3>4. QED  BY <1>2, <3>2, <3>3 DEF LInv, LTypes
  <2>2. CASE PipInstalls(c)
    BY <2>2 DEF PipInstalls, At, locals, LInv, LTypes, InHand
  <2>3. CASE ~BeginInstall(c) /\ ~PipInstalls(c)
    <3>1. man' = man /\ pc[c] # "piped"
      BY <2>3 DEF BeginRollback, PipRollsBack, RolledBack, BeginRestart, RestartFails, locals, At
    <3>2. pc'[c] \notin {"pip", "piped"}
      BY <1>2, <2>3 DEF BeginRollback, PipRollsBack, RolledBack, BeginRestart, RestartFails,
                        Return, Raise, Await, GoOn, LInv, LTypes
    <3>3. QED  BY <1>2, <3>1, <3>2 DEF LInv, LTypes
  <2>4. QED  BY <2>1, <2>2, <2>3
<1>5. /\ l \in {"rollpip", "rolled"} => seen'[c] \in Version
      /\ seen' \in [Callers -> 0..MaxVersion]
      /\ \A d \in Callers \ {c} : seen'[d] = seen[d]
  <2>1. CASE BeginRollback(c)
    <3>1. previous \in 0..MaxVersion /\ (previous # 0 => previous \in Version)
      BY OtaAssumption DEF LInv, LTypes, Version, OtaAssumption
    <3>2. \/ seen' = seen /\ pc'[c] = "idle"
          \/ previous # 0 /\ seen' = [seen EXCEPT ![c] = previous]
      BY <2>1 DEF BeginRollback, Return, Await, LInv, LTypes
    <3>3. QED  BY <1>2, <3>1, <3>2 DEF LInv, LTypes
  <2>2. CASE PipRollsBack(c)
    BY <2>2 DEF PipRollsBack, At, locals, LInv, LTypes, InHand
  <2>3. CASE ~BeginRollback(c) /\ ~PipRollsBack(c)
    <3>1. seen' = seen
      BY <2>3 DEF BeginInstall, PipInstalls, RolledBack, BeginRestart, RestartFails, locals
    <3>2. pc'[c] \notin {"rollpip", "rolled"}
      BY <1>2, <2>3 DEF BeginInstall, PipInstalls, RolledBack, BeginRestart, RestartFails,
                        Return, Raise, Await, GoOn, LInv, LTypes
    <3>3. QED  BY <1>2, <3>1, <3>2 DEF LInv, LTypes
  <2>4. QED  BY <2>1, <2>2, <2>3
<1>6. installed' \in [version : Version, intact : BOOLEAN]
  <2>1. CASE PipInstalls(c)
    <3>1. path \in Version
      BY <2>1, OtaAssumption DEF PipInstalls, LInv, LTypes, Version, OtaAssumption
    <3>2. QED  BY <2>1, <3>1 DEF PipInstalls
  <2>2. CASE PipRollsBack(c)
    BY <2>2 DEF PipRollsBack, At, LInv, InHand
  <2>3. CASE ~PipInstalls(c) /\ ~PipRollsBack(c)
    BY <2>3 DEF BeginInstall, BeginRollback, RolledBack, BeginRestart, RestartFails, world,
                LInv, LTypes
  <2>4. QED  BY <2>1, <2>2, <2>3
<1>7. saved' \in 0..MaxVersion /\ current' \in Version /\ previous' \in 0..MaxVersion
  <2>1. current \in Version /\ current \in 0..MaxVersion /\ 0 \in 0..MaxVersion
    BY OtaAssumption DEF LInv, LTypes, Version, OtaAssumption
  <2>2. CASE RolledBack(c)
    BY <2>1, <2>2 DEF RolledBack, At, disk, LInv, LTypes, InHand
  <2>3. CASE ~RolledBack(c)
    BY <2>1, <2>3 DEF BeginInstall, PipInstalls, BeginRollback, PipRollsBack, BeginRestart,
                      RestartFails, disk, updater, LInv, LTypes
  <2>4. QED  BY <2>2, <2>3
<1>8. LTypes'
  BY <1>2, <1>3, <1>4, <1>5, <1>6, <1>7 DEF LInv, LTypes, checker
<1>9. InHand(c)'
  BY <1>2, <1>4, <1>5 DEF InHand
<1>10. QED  BY <1>1, <1>3, <1>4, <1>5, <1>8, <1>9, Quiet

LEMMA NewProcessLoose ==
  ASSUME LInv, overlapped' \in BOOLEAN, NEW s \in 0..MaxVersion, NewProcess(s), crashes' \in 0..MaxCrashes
  PROVE  LInv'
<1>1. 0 \in 0..MaxVersion /\ 0 \in 0..(3 * Chunks)
  BY OtaAssumption DEF OtaAssumption
<1>2. \A c \in Callers : pc'[c] = "idle"
  BY DEF NewProcess
<1>3. LTypes'
  <2>1. /\ fd' \in [Callers -> [on : {"tmp", "final", "gone"}, append : BOOLEAN]]
        /\ pc' \in [Callers -> Label]
    BY DEF NewProcess, Closed, Label
  <2>2. /\ man' \in [Callers -> Manifest \cup {NoManifest}]
        /\ sent' \in [Callers -> Page \cup {NoPage}]
        /\ seen' \in [Callers -> 0..MaxVersion] /\ from' \in [Callers -> 0..(3 * Chunks)]
    BY <1>1 DEF NewProcess
  <2>3. current' \in Version /\ previous' \in 0..MaxVersion
    BY DEF NewProcess, LInv, LTypes
  <2>4. QED  BY <1>1, <2>1, <2>2, <2>3 DEF NewProcess, LInv, LTypes
<1>4. \A c \in Callers : InHand(c)'
  BY <1>2 DEF InHand
<1>5. ASSUME NEW v \in Version, NEW o \in {"tmp", "final"} PROVE Room(v, o)'
  <2>1. OnDisk(v, o)' = OnDisk(v, o)
    BY DEF NewProcess, OnDisk
  <2>2. Len(OnDisk(v, o)) \in 0..(3 * Chunks)
    BY RoomBounds DEF LInv
  <2>3. Left("loop", v, o)' = 0 /\ Left("api", v, o)' = 0 /\ Left("api2", v, o)' = 0
    BY <1>2 DEF Left, Appends
  <2>4. QED  BY <2>1, <2>2, <2>3, LeftRange DEF Room, Total
<1>6. QED  BY <1>3, <1>4, <1>5 DEF LInv

LEMMA AloneLoose == ASSUME LInv, overlapped' \in BOOLEAN, Publish \/ Upload \/ UNCHANGED vars PROVE LInv'
<1>1. /\ page' \in Page
      /\ UNCHANGED <<disk, installed, crashes, updater, checker, locals, pc, baton>>
  <2>1. CASE Publish
    <3>1. page.version + 1 \in Version
      BY <2>1, OtaAssumption DEF Publish, LInv, LTypes, Page, Version, OtaAssumption
    <3>2. QED  BY <2>1, <3>1 DEF Publish, Page
  <2>2. CASE Upload
    BY <2>2 DEF Upload, LInv, LTypes, Page
  <2>3. CASE UNCHANGED vars
    BY <2>3 DEF LInv, LTypes, vars, world
  <2>4. QED  BY <2>1, <2>2, <2>3
<1>2. LTypes'
  BY <1>1 DEF LInv, LTypes, disk, updater, checker, locals
<1>3. \A c \in Callers : InHand(c)'
  BY <1>1 DEF LInv, InHand, locals
<1>4. ASSUME NEW v \in Version, NEW o \in {"tmp", "final"} PROVE Room(v, o)'
  <2>1. OnDisk(v, o)' = OnDisk(v, o) /\ \A d : Left(d, v, o)' = Left(d, v, o)
    BY <1>1 DEF OnDisk, Left, Appends, disk, locals
  <2>2. QED  BY <2>1 DEF LInv, Room, Total
<1>5. QED  BY <1>2, <1>3, <1>4 DEF LInv

LEMMA InitiallyLoose == Init => LInv
<1> SUFFICES ASSUME Init PROVE LInv
  OBVIOUS
<1>1. \A c \in Callers : pc[c] = "idle"
  BY DEF Init
<1>2. LTypes
  <2>1. Types
    BY Initially DEF IInv
  <2>2. NoFile \in Bytes
    BY LeftRange DEF NoFile, Bytes
  <2>3. tmp \in [Version -> Bytes] /\ final \in [Version -> Bytes]
    BY <2>2 DEF Init
  <2>4. from \in [Callers -> 0..(3 * Chunks)]
    BY LeftRange DEF Init
  <2>5. QED  BY <2>1, <2>3, <2>4 DEF Types, LTypes
<1>3. ASSUME NEW v \in Version, NEW o \in {"tmp", "final"} PROVE Room(v, o)
  <2>1. OnDisk(v, o) = NoFile /\ Len(NoFile) = 1
    BY DEF Init, OnDisk, NoFile
  <2>2. Left("loop", v, o) = 0 /\ Left("api", v, o) = 0 /\ Left("api2", v, o) = 0
    BY <1>1 DEF Left, Appends
  <2>3. QED  BY <2>1, <2>2, LeftRange DEF Room, Total
<1>4. QED  BY <1>1, <1>2, <1>3 DEF LInv, InHand

\* Every variable holds what the code can put there, however the calls overlap: in
\* particular no file is ever longer than three wheels, one for each caller
\* (UpdateDownloader.download, which appends to what it finds).
THEOREM OtaTypeCorrect == Spec => []TypeOK
<1>1. LInv /\ [Next]_vars => LInv'
  <2> SUFFICES ASSUME LInv, [Next]_vars PROVE LInv'
    OBVIOUS
  <2>0. overlapped' \in BOOLEAN
    BY OverlapMoves DEF Begins, LInv, LTypes
  <2>1. CASE Crash
    <3>1. crashes' \in 0..MaxCrashes
      BY <2>1, OtaAssumption DEF Crash, LInv, LTypes, OtaAssumption
    <3>2. saved \in 0..MaxVersion /\ 0 \in 0..MaxVersion
      BY OtaAssumption DEF LInv, LTypes, OtaAssumption
    <3>3. QED  BY <2>0, <2>1, <3>1, <3>2, NewProcessLoose DEF Crash
  <2>2. ASSUME NEW c \in Callers, Restarts(c) PROVE LInv'
    BY <2>0, <2>2, NewProcessLoose DEF Restarts, LInv, LTypes
  <2>3. ASSUME NEW c \in Callers, Call(c) PROVE LInv'
    BY <2>0, <2>3, CheckLoose, BeginDownloadLoose, RestLoose DEF Call
  <2>4. ASSUME NEW c \in Callers, Step(c) PROVE LInv'
    BY <2>0, <2>2, <2>4, QueryLoose, QueryRaisesLoose, QueryAnsweredLoose, BeginDownloadLoose, FailLoose,
       ResponseLoose, ChunkLoose, DownloadedLoose, InstalledLoose, RestLoose DEF Step
  <2>5. QED  BY <2>0, <2>1, <2>3, <2>4, AloneLoose DEF Next
<1>2. LInv => TypeOK
  <2> SUFFICES ASSUME LInv PROVE TypeOK
    OBVIOUS
  <2>1. \A v \in Version : tmp[v] \in File /\ final[v] \in File
    BY RoomBounds DEF LInv, OnDisk
  <2>2. tmp \in [Version -> File] /\ final \in [Version -> File]
    BY <2>1 DEF LInv, LTypes
  <2>3. QED  BY <2>2 DEF LInv, LTypes, TypeOK
<1>3. QED  BY InitiallyLoose, <1>1, <1>2, PTL DEF Spec

-----------------------------------------------------------------------------
(* Update: every step of one call is a step of the promise, or none.           *)

\* No version that is shown or kept to come back to is newer than v.
Ahead(v) == current <= v /\ previous <= v

(* Nothing is newer than what has been published, and nothing that may be      *)
(* installed is older than what is: what the last answer offered is the newest *)
(* there is to install, and what is pending is no newer than that.             *)
Known ==
  /\ installed.version <= page.version /\ saved <= page.version /\ Ahead(page.version)
  /\ cached # NoManifest => Ahead(cached.version) /\ cached.version <= page.version
  /\ pending # NoManifest => Ahead(pending.version) /\ pending.version <= cached.version

(* What a caller knows of it: an answer is newer than what is shown, pip is    *)
(* called with the way back saved, and a rollback goes to the version before.  *)
Keeps(c) ==
  /\ pc[c] = "sums" => Ahead(man[c].version) /\ man[c].version <= page.version
  /\ pc[c] = "pip" => saved = current
  /\ pc[c] \in {"rollpip", "rolled"} => seen[c] = previous

KInv == IInv /\ Known /\ \A c \in Callers : Keeps(c)

Half == \E c \in Callers : Changing(c)

\* The versions are numbers.
LEMMA Numbers ==
  ASSUME Types
  PROVE  /\ page.version \in Nat /\ installed.version \in Nat /\ saved \in Nat
         /\ current \in Nat /\ previous \in Nat
         /\ pending.version \in Nat /\ cached.version \in Nat
         /\ pending # NoManifest => pending.version >= 1
<1>1. \A m \in Manifest \cup {NoManifest} :
        m.version \in Nat /\ (m # NoManifest => m.version >= 1)
  BY DEF Manifest, NoManifest, Version
<1>2. QED  BY <1>1, OtaAssumption DEF Types, Page, Version, OtaAssumption

LEMMA KnownStays ==
  ASSUME Known, UNCHANGED <<page, installed, current, previous, saved, pending, cached>>
  PROVE  Known'
BY DEF Known, Ahead

\* A step of c, which is not between pip and the record before it or after it.
LEMMA NotHalf ==
  ASSUME KInv, NEW c \in Callers, NEW l \in Label \ {"piped", "rolled"},
         pc[c] \notin {"idle", "ended"} \/ \A d \in Callers : pc[d] \in {"idle", "ended"},
         pc[c] \notin {"piped", "rolled"}, pc' = [pc EXCEPT ![c] = l]
  PROVE  /\ ~Half /\ ~Half'
         /\ pc'[c] = l /\ \A d \in Callers : d # c => pc'[d] \in {"idle", "ended"}
<1>1. /\ pc'[c] = l
      /\ \A d \in Callers : d # c => pc[d] \in {"idle", "ended"} /\ pc'[d] \in {"idle", "ended"}
  BY OthersIdle DEF KInv
<1>2. \A d \in Callers : ~Changing(d) /\ ~Changing(d)'
  BY <1>1 DEF Changing
<1>3. QED  BY <1>1, <1>2 DEF Half

\* Such a step that leaves the versions alone is none to the promise.
LEMMA Unmoved ==
  ASSUME KInv, IInv', Known',
         NEW c \in Callers, NEW l \in Label \ {"piped", "rolled"},
         pc[c] \notin {"idle", "ended"} \/ \A d \in Callers : pc[d] \in {"idle", "ended"},
         pc[c] \notin {"piped", "rolled"}, pc' = [pc EXCEPT ![c] = l],
         UNCHANGED <<page, installed, current, previous, saved>>,
         Keeps(c)'
  PROVE  KInv' /\ UNCHANGED Promise!updateVars
<1>1. /\ ~Half /\ ~Half'
      /\ \A d \in Callers : d # c => pc'[d] \in {"idle", "ended"}
  BY NotHalf
<1>2. \A d \in Callers : Keeps(d)'
  BY <1>1 DEF Keeps
<1>3. (Half' <=> Half) /\ overlapped' = overlapped
  BY <1>1 DEF KInv, IInv
<1>4. UNCHANGED Promise!updateVars
  BY <1>3 DEF Promise!updateVars, Half
<1>5. QED  BY <1>2, <1>4 DEF KInv

LEMMA CheckedKept ==
  ASSUME KInv, IInv', NEW c \in Callers, pc[c] \in {"query", "sums"},
         NEW m \in Manifest \cup {NoManifest}, Checked(c, m),
         UNCHANGED <<disk, world, locals>>,
         cached' # NoManifest => Ahead(cached'.version) /\ cached'.version <= page.version,
         m # NoManifest => m = cached',
         m = NoManifest => cached' = cached
  PROVE  KInv' /\ UNCHANGED Promise!updateVars
<1>1. PICK l \in {"idle", "download"} : pc' = [pc EXCEPT ![c] = l]
  BY DEF Checked, GoOn, Return, Await
<1>2. /\ UNCHANGED <<page, installed, current, previous, saved>>
      /\ pending' = IF m = NoManifest THEN pending ELSE m
  BY DEF Checked, disk, world
<1>3. Known'
  <2>1. cached' # NoManifest => Ahead(cached'.version) /\ cached'.version <= page.version
    OBVIOUS
  <2>2. pending' # NoManifest => Ahead(pending'.version) /\ pending'.version <= cached'.version
    <3>1. CASE m = NoManifest
      BY <1>2, <3>1 DEF KInv, Known
    <3>2. CASE m # NoManifest
      <4>1. pending' = m /\ m = cached'
        BY <1>2, <3>2
      <4>2. pending'.version \in Nat
        BY <4>1 DEF Manifest, NoManifest, Version
      <4>3. QED  BY <2>1, <3>2, <4>1, <4>2
    <3>3. QED  BY <3>1, <3>2
  <2>3. QED  BY <1>2, <2>1, <2>2 DEF KInv, Known, Ahead
<1>4. Keeps(c)'
  <2>1. pc'[c] = l
    BY <1>1 DEF KInv, IInv, Types
  <2>2. QED  BY <2>1 DEF Keeps
<1>5. QED  BY <1>1, <1>2, <1>3, <1>4, Unmoved DEF Label

\* An answer that is kept is newer than what is shown, and what is pending is
\* the answer that is kept.
LEMMA QueryKept ==
  ASSUME KInv, IInv', NEW c \in Callers, QueryNothing(c) \/ QueryNotModified(c)
  PROVE  KInv' /\ UNCHANGED Promise!updateVars
<1>1. pc[c] = "query" /\ UNCHANGED <<disk, world, checker, locals>>
  BY DEF QueryNothing, QueryNotModified, At
<1>2. PICK m \in {cached, NoManifest} : Checked(c, m)
  BY DEF QueryNothing, QueryNotModified
<1>3. m \in Manifest \cup {NoManifest} /\ cached' = cached
  BY <1>1 DEF checker, KInv, IInv, Types
<1>4. cached' # NoManifest => Ahead(cached'.version) /\ cached'.version <= page.version
  BY <1>3 DEF KInv, Known
<1>5. QED
  BY <1>1, <1>2, <1>3, <1>4, CheckedKept

LEMMA QueryAnsweredKept ==
  ASSUME KInv, IInv', NEW c \in Callers, QueryAnswered(c)
  PROVE  KInv' /\ UNCHANGED Promise!updateVars
<1>1. pc[c] = "query" /\ UNCHANGED <<disk, world, cached, sent, seen, from, fd>>
  BY DEF QueryAnswered, At
<1>2. CASE page.version > seen[c] /\ page.whole
  <2>1. /\ pc' = [pc EXCEPT ![c] = "sums"]
        /\ man' = [man EXCEPT ![c] = [version |-> page.version, hashed |-> FALSE]]
        /\ UNCHANGED updater
    BY <1>2 DEF QueryAnswered, Await
  <2>2. UNCHANGED <<page, installed, current, previous, saved, pending, cached>>
    BY <1>1, <2>1 DEF disk, world, updater
  <2>3. Known'
    BY <2>2, KnownStays DEF KInv
  <2>4. pc'[c] = "sums" /\ man'[c].version = page.version
    BY <2>1 DEF KInv, IInv, Types
  <2>5. Keeps(c)'
    <3>1. Ahead(page.version) /\ page.version \in Nat
      BY Numbers DEF KInv, IInv, Known
    <3>2. QED  BY <2>2, <2>4, <3>1 DEF Keeps, Ahead
  <2>6. QED  BY <1>1, <2>1, <2>2, <2>3, <2>5, Unmoved DEF Label
<1>3. CASE ~(page.version > seen[c] /\ page.whole)
  <2>1. Checked(c, NoManifest) /\ UNCHANGED man
    BY <1>3 DEF QueryAnswered
  <2>2. cached' # NoManifest => Ahead(cached'.version) /\ cached'.version <= page.version
    BY <1>1 DEF KInv, Known
  <2>3. QED  BY <1>1, <2>1, <2>2, CheckedKept DEF locals
<1>4. QED  BY <1>2, <1>3

LEMMA SumsAnsweredKept ==
  ASSUME KInv, IInv', NEW c \in Callers, SumsAnswered(c)
  PROVE  KInv' /\ UNCHANGED Promise!updateVars
<1>1. /\ pc[c] = "sums" /\ man[c] \in Manifest
      /\ UNCHANGED <<disk, world, etag, locals>>
  BY DEF SumsAnswered, At, KInv, IInv, Holds
<1>2. PICK ok \in BOOLEAN : /\ cached' = [man[c] EXCEPT !.hashed = ok]
                           /\ Checked(c, [man[c] EXCEPT !.hashed = ok])
  BY DEF SumsAnswered
<1>3. /\ cached' \in Manifest /\ cached'.version = man[c].version
      /\ cached' # NoManifest
  BY <1>1, <1>2 DEF Manifest, NoManifest, Version
<1>4. Ahead(cached'.version) /\ cached'.version <= page.version
  BY <1>1, <1>3 DEF KInv, Keeps
<1>5. QED  BY <1>1, <1>2, <1>3, <1>4, CheckedKept

\* What the updater does besides has nothing to do with the versions.
LEMMA RestKept ==
  ASSUME KInv, IInv', NEW c \in Callers, NEW l \in Label \ {"piped", "rolled", "sums", "pip"},
         pc[c] \notin {"idle", "ended"} \/ \A d \in Callers : pc[d] \in {"idle", "ended"},
         pc[c] \notin {"piped", "rolled"}, pc' = [pc EXCEPT ![c] = l],
         l = "rollpip" => seen'[c] = previous,
         UNCHANGED <<page, installed, current, previous, saved, pending, cached>>
  PROVE  KInv' /\ UNCHANGED Promise!updateVars
<1>1. pc'[c] = l
  BY DEF KInv, IInv, Types
<1>2. Keeps(c)'
  BY <1>1 DEF Keeps
<1>3. Known'
  BY KnownStays DEF KInv
<1>4. QED  BY <1>2, <1>3, Unmoved

\* An exception nobody catches leaves the versions alone.
LEMMA RaisesKept ==
  ASSUME KInv, IInv', NEW c \in Callers, pc[c] \in {"query", "install"}, Raise(c),
         UNCHANGED <<page, installed, current, previous, saved, pending, cached>>
  PROVE  KInv' /\ UNCHANGED Promise!updateVars
<1>1. PICK l \in {"idle", "ended"} : pc' = [pc EXCEPT ![c] = l]
  BY DEF Raise, Await
<1>2. QED  BY <1>1, RestKept DEF Label

LEMMA BeginInstallSaves ==
  ASSUME KInv, IInv', NEW c \in Callers, BeginInstall(c)
  PROVE  KInv' /\ (Promise!Save \/ UNCHANGED Promise!updateVars)
<1>1. /\ pc[c] = "install" /\ man[c] = pending /\ man[c] \in Manifest
      /\ path = man[c].version
      /\ UNCHANGED <<world, checker, current, previous, pending>>
  BY DEF BeginInstall, At, KInv, IInv, Holds
<1>2. path # 0 /\ pending # NoManifest
  BY <1>1 DEF Manifest, Version, NoManifest
<1>3. \/ saved' = current /\ Await(c, "pip")
      \/ saved' \in {saved, 0} /\ Raise(c)
  BY <1>2 DEF BeginInstall
<1>4. CASE saved' = saved /\ Raise(c)
  BY <1>1, <1>4, RaisesKept DEF world, checker
<1>5. CASE ~(saved' = saved /\ Raise(c))
  <2>1. saved' \in {current, 0} /\ (~Await(c, "pip") => Raise(c))
    BY <1>3, <1>5
  <2>2. PICK l \in {"pip", "idle", "ended"} :
          pc' = [pc EXCEPT ![c] = l] /\ (l = "pip" => saved' = current)
    BY <1>3, <1>5 DEF Await, Raise
  <2>3. /\ ~Half /\ ~Half' /\ pc'[c] = l
        /\ \A d \in Callers : d # c => pc'[d] \in {"idle", "ended"}
    BY <1>1, <2>2, NotHalf DEF Label
  <2>4. \A d \in Callers : Keeps(d)'
    BY <1>1, <2>2, <2>3 DEF Keeps
  <2>5. saved' <= page.version
    BY <2>1, Numbers DEF KInv, IInv, Known, Ahead
  <2>6. Known'
    BY <1>1, <2>5 DEF KInv, Known, Ahead, world, checker
  <2>7. Promise!Save
    BY <1>1, <2>1, <2>3 DEF Promise!Save, Half, world
  <2>8. QED  BY <2>4, <2>6, <2>7 DEF KInv
<1>6. QED  BY <1>4, <1>5

\* Between pip and its record c is the one that is.
LEMMA NowHalf ==
  ASSUME KInv, NEW c \in Callers, pc[c] \notin {"idle", "ended"},
         NEW l \in {"piped", "rolled"}, pc' = [pc EXCEPT ![c] = l]
  PROVE  /\ Half' /\ pc'[c] = l /\ \A d \in Callers : d # c => pc'[d] \in {"idle", "ended"}
         /\ pc[c] \notin {"piped", "rolled"} => ~Half
<1>1. /\ pc'[c] = l
      /\ \A d \in Callers : d # c => pc[d] \in {"idle", "ended"} /\ pc'[d] \in {"idle", "ended"}
  BY OthersIdle DEF KInv, Label
<1>2. QED  BY <1>1 DEF Half, Changing

LEMMA PipInstallsOne ==
  ASSUME KInv, IInv', NEW c \in Callers, PipInstalls(c)
  PROVE  KInv' /\ Promise!Install
<1>1. /\ pc[c] = "pip" /\ man[c] = pending /\ man[c] \in Manifest
      /\ path = man[c].version
      /\ installed' = [version |-> path, intact |-> final[path] = Wheel]
      /\ pc' = [pc EXCEPT ![c] = "piped"]
      /\ UNCHANGED <<disk, page, crashes, updater, checker, locals, baton, overlapped>>
  BY DEF PipInstalls, At, KInv, IInv, Holds
<1>2. /\ Half' /\ ~Half /\ pc'[c] = "piped"
      /\ \A d \in Callers : d # c => pc'[d] \in {"idle", "ended"}
  BY <1>1, NowHalf
<1>3. pending # NoManifest /\ pending.version \in Nat /\ installed'.version = pending.version
  BY <1>1, Numbers DEF Manifest, NoManifest, Version, KInv, IInv
<1>4. \A d \in Callers : Keeps(d)'
  BY <1>2 DEF Keeps
<1>5. UNCHANGED <<page, current, previous, saved, pending, cached>>
  BY <1>1 DEF disk, updater, checker
<1>6. /\ page.version \in Nat /\ cached.version \in Nat /\ current \in Nat
      /\ current <= pending.version /\ pending.version <= cached.version
      /\ cached.version <= page.version
  <2>1. cached # NoManifest
    BY <1>3, Numbers DEF KInv, IInv, Known, NoManifest
  <2>2. QED  BY <1>3, <2>1, Numbers DEF KInv, IInv, Known, Ahead
<1>7. Known'
  <2>1. installed'.version <= page.version
    BY <1>3, <1>6
  <2>2. QED  BY <1>5, <2>1 DEF KInv, Known, Ahead
<1>8. installed.version = current
  BY <1>2 DEF KInv, IInv, Recorded, Half
<1>9. saved = current
  BY <1>1 DEF KInv, Keeps
<1>10. Promise!Install
  <2>1. installed'.version \in installed.version..page.version
    BY <1>3, <1>6, <1>8
  <2>2. QED  BY <1>2, <1>5, <1>9, <2>1 DEF Promise!Install, Half
<1>11. QED  BY <1>4, <1>7, <1>10 DEF KInv

LEMMA PipRollsBackGoes ==
  ASSUME KInv, IInv', NEW c \in Callers, PipRollsBack(c)
  PROVE  KInv' /\ Promise!GoBack
<1>1. /\ pc[c] = "rollpip" /\ seen[c] \in Version /\ seen[c] = previous
      /\ installed' = [version |-> seen[c], intact |-> TRUE]
      /\ pc' = [pc EXCEPT ![c] = "rolled"]
      /\ UNCHANGED <<disk, page, crashes, updater, checker, locals, baton, overlapped>>
  BY DEF PipRollsBack, At, KInv, IInv, Holds, Keeps
<1>2. /\ Half' /\ ~Half /\ pc'[c] = "rolled"
      /\ \A d \in Callers : d # c => pc'[d] \in {"idle", "ended"}
  BY <1>1, NowHalf
<1>3. UNCHANGED <<page, current, previous, saved, pending, cached, seen>>
  BY <1>1 DEF disk, updater, checker, locals
<1>4. \A d \in Callers : Keeps(d)'
  BY <1>1, <1>2, <1>3 DEF Keeps
<1>5. installed'.version = previous /\ previous # 0
  BY <1>1 DEF Version
<1>6. Known'
  BY <1>3, <1>5 DEF KInv, Known, Ahead
<1>7. Promise!GoBack
  BY <1>2, <1>3, <1>5 DEF Promise!GoBack, Half
<1>8. QED  BY <1>4, <1>6, <1>7 DEF KInv

\* c records what it has made pip do: nobody is in between any more.
LEMMA RecordKept ==
  ASSUME KInv, IInv', Known', NEW c \in Callers, pc[c] \in {"piped", "rolled"},
         NEW l \in {"idle", "restart"}, pc' = [pc EXCEPT ![c] = l],
         UNCHANGED <<page, installed, saved>>,
         current' = installed.version, previous' = current
  PROVE  KInv' /\ Promise!Record
<1>1. /\ pc'[c] = l
      /\ \A d \in Callers : d # c => pc'[d] \in {"idle", "ended"}
  BY OthersIdle DEF KInv, Label
<1>2. Half /\ ~Half'
  BY <1>1 DEF Half, Changing
<1>3. \A d \in Callers : Keeps(d)'
  BY <1>1 DEF Keeps
<1>4. Promise!Record
  BY <1>2 DEF Promise!Record, Half
<1>5. QED  BY <1>3, <1>4 DEF KInv

LEMMA InstalledRecords ==
  ASSUME KInv, IInv', NEW c \in Callers, Installed(c)
  PROVE  KInv' /\ Promise!Record
<1>1. /\ pc[c] = "piped" /\ man[c] = pending /\ man[c] \in Manifest
      /\ installed.version = man[c].version
      /\ previous' = current /\ current' = man[c].version /\ pending' = NoManifest
      /\ UNCHANGED <<saved, world, checker>>
  BY DEF Installed, At, KInv, IInv, Holds
<1>2. PICK l \in {"idle", "restart"} : pc' = [pc EXCEPT ![c] = l]
  BY DEF Installed, GoOn, Return, Await
<1>3. UNCHANGED <<page, installed, saved, cached>>
  BY <1>1 DEF world, checker
<1>4. pending # NoManifest
  BY <1>1 DEF Manifest, NoManifest, Version
<1>5. Known'
  BY <1>1, <1>3, <1>4 DEF KInv, Known, Ahead
<1>6. QED  BY <1>1, <1>2, <1>3, <1>5, RecordKept

LEMMA RolledBackRecords ==
  ASSUME KInv, IInv', NEW c \in Callers, RolledBack(c)
  PROVE  KInv' /\ Promise!Record
<1>1. /\ pc[c] = "rolled" /\ installed.version = seen[c] /\ seen[c] = previous
      /\ pc' = [pc EXCEPT ![c] = "restart"]
      /\ previous' = current /\ current' = seen[c]
      /\ UNCHANGED <<disk, world, checker, pending>>
  BY DEF RolledBack, GoOn, At, KInv, IInv, Holds, Keeps
<1>2. UNCHANGED <<page, installed, saved, pending, cached>>
  BY <1>1 DEF disk, world, checker
<1>3. Known'
  BY <1>1, <1>2 DEF KInv, Known, Ahead
<1>4. QED  BY <1>1, <1>2, <1>3, RecordKept

LEMMA NewProcessRestarts ==
  ASSUME KInv, IInv', NEW s, s = saved \/ (~Half /\ s = 0), NewProcess(s)
  PROVE  KInv' /\ Promise!Restart
<1>1. /\ saved' = s /\ previous' = s /\ current' = installed.version
      /\ pending' = NoManifest /\ cached' = NoManifest
      /\ UNCHANGED <<page, installed>>
      /\ \A d \in Callers : pc'[d] \in {"idle", "ended"}
  BY DEF NewProcess
<1>2. \A d \in Callers : Keeps(d)'
  BY <1>1 DEF Keeps
<1>3. ~Half'
  BY <1>1 DEF Half, Changing
<1>4. Known'
  <2>1. s <= page.version
    BY Numbers DEF KInv, IInv, Known
  <2>2. QED  BY <1>1, <2>1 DEF KInv, Known, Ahead
<1>5. Promise!Restart
  BY <1>1, <1>3 DEF Promise!Restart, Half
<1>6. QED  BY <1>2, <1>4, <1>5 DEF KInv

LEMMA PublishReleases ==
  ASSUME KInv, IInv', Publish PROVE KInv' /\ Promise!Release
<1>1. /\ page'.version = page.version + 1 /\ page.version \in Nat
      /\ overlapped' = overlapped
      /\ UNCHANGED <<disk, installed, updater, checker, locals, pc>>
  BY Numbers DEF Publish, KInv, IInv
<1>2. UNCHANGED <<installed, current, previous, saved, pending, cached, man, seen, pc>>
  BY <1>1 DEF disk, updater, checker, locals
<1>3. Known'
  BY <1>1, <1>2, Numbers DEF KInv, IInv, Known, Ahead
<1>4. \A c \in Callers : Keeps(c)'
  <2>1. ASSUME NEW c \in Callers PROVE Keeps(c)'
    <3>1. man[c].version \in Nat
      <4>1. \A m \in Manifest \cup {NoManifest} : m.version \in Nat
        BY DEF Manifest, NoManifest, Version
      <4>2. QED  BY <4>1 DEF KInv, IInv, Types
    <3>2. QED  BY <1>1, <1>2, <3>1 DEF KInv, Keeps, Ahead
  <2>2. QED  BY <2>1
<1>5. Promise!Release
  BY <1>1, <1>2 DEF Promise!Release, Changing
<1>6. QED  BY <1>3, <1>4, <1>5 DEF KInv

\* What the promise makes of a step.
Kept == Promise!Next \/ UNCHANGED Promise!updateVars

LEMMA KeepsThePromise ==
  ASSUME IInv',
         \/ Promise!Release \/ Promise!Save \/ Promise!Install \/ Promise!GoBack
         \/ Promise!Record \/ Promise!Restart
  PROVE  Kept
BY DEF Kept, Promise!Next, Promise!Keep, IInv

LEMMA UploadKept ==
  ASSUME KInv, IInv', Upload PROVE KInv' /\ Kept
<1>1. /\ page'.version = page.version
      /\ UNCHANGED <<disk, installed, updater, checker, locals, pc, overlapped>>
  BY DEF Upload, KInv, IInv, Types, Page
<1>2. UNCHANGED <<installed, current, previous, saved, pending, cached, man, seen, pc>>
  BY <1>1 DEF disk, updater, checker, locals
<1>3. Known' /\ \A c \in Callers : Keeps(c)'
  BY <1>1, <1>2 DEF KInv, Known, Keeps, Ahead
<1>4. UNCHANGED Promise!updateVars
  BY <1>1, <1>2 DEF Promise!updateVars, Changing
<1>5. QED  BY <1>3, <1>4 DEF KInv, Kept

LEMMA CallKept ==
  ASSUME KInv, IInv', NEW c \in Callers, Call(c) PROVE KInv' /\ Kept
<1>1. \A d \in Callers : pc[d] \in {"idle", "ended"}
  BY Alone DEF KInv, IInv
<1>2. CASE Check(c)
  <2>1. pc' = [pc EXCEPT ![c] = "query"]
    BY <1>2 DEF Check, Await
  <2>2. UNCHANGED <<page, installed, current, previous, saved, pending, cached>>
    BY <1>2 DEF Check, disk, world, checker
  <2>3. QED  BY <1>1, <2>1, <2>2, RestKept DEF Kept, Label
<1>3. CASE BeginDownload(c)
  <2>1. \E l \in {"idle", "get"} : pc' = [pc EXCEPT ![c] = l]
    BY <1>3 DEF BeginDownload, Return, Await
  <2>2. QED
    BY <1>1, <1>3, <2>1, RestKept DEF Kept, BeginDownload, disk, world, checker, Label
<1>4. CASE BeginRollback(c)
  <2>1. CASE previous = 0
    BY <1>1, <1>4, <2>1, RestKept
       DEF Kept, BeginRollback, Return, Await, disk, world, checker, Label
  <2>2. CASE previous # 0
    <3>1. pc' = [pc EXCEPT ![c] = "rollpip"] /\ seen'[c] = previous
      BY <1>4, <2>2 DEF BeginRollback, Await, KInv, IInv, Types
    <3>2. QED
      BY <1>1, <1>4, <3>1, RestKept DEF Kept, BeginRollback, disk, world, checker, Label
  <2>3. QED  BY <2>1, <2>2
<1>5. CASE BeginRestart(c)
  BY <1>1, <1>5, RestKept DEF Kept, BeginRestart, Await, disk, world, checker, Label
<1>6. QED  BY <1>2, <1>3, <1>4, <1>5 DEF Call

LEMMA StepKept ==
  ASSUME KInv, IInv', NEW c \in Callers, Step(c) PROVE KInv' /\ Kept
<1>1. CASE QueryNothing(c) \/ QueryNotModified(c) \/ QueryAnswered(c) \/ SumsAnswered(c)
  BY <1>1, QueryKept, QueryAnsweredKept, SumsAnsweredKept DEF Kept
<1>0. CASE QueryRaises(c)
  <2>1. /\ pc[c] = "query" /\ Raise(c)
        /\ UNCHANGED <<page, installed, current, previous, saved, pending, cached>>
    BY <1>0 DEF QueryRaises, At, disk, world, updater
  <2>2. QED  BY <2>1, RaisesKept DEF Kept
<1>2. CASE At(c, "download") /\ BeginDownload(c)
  <2>1. pc[c] = "download" /\ \E l \in {"idle", "get"} : pc' = [pc EXCEPT ![c] = l]
    BY <1>2 DEF BeginDownload, Return, Await, At
  <2>2. QED
    BY <1>2, <2>1, RestKept DEF Kept, BeginDownload, disk, world, checker, Label
<1>3. CASE DownloadError(c) \/ PipFails(c)
  <2>1. /\ pc[c] \in {"get", "stream", "pip", "rollpip"}
        /\ pc' = [pc EXCEPT ![c] = "idle"]
        /\ UNCHANGED <<page, installed, current, previous, saved, pending, cached>>
    BY <1>3 DEF DownloadError, PipFails, Fail, Return, Await, At, disk, world, checker
  <2>2. QED  BY <2>1, RestKept DEF Kept, Label
<1>4. CASE Response(c) \/ Chunk(c)
  <2>1. /\ pc[c] \in {"get", "stream"} /\ pc' = [pc EXCEPT ![c] = "stream"]
        /\ UNCHANGED <<page, installed, current, previous, saved, pending, cached>>
    BY <1>4 DEF Response, Chunk, Await, At, world, updater, checker
  <2>2. QED  BY <2>1, RestKept DEF Kept, Label
<1>5. CASE Downloaded(c)
  <2>1. /\ pc[c] = "stream"
        /\ \E l \in {"idle", "install"} : pc' = [pc EXCEPT ![c] = l]
    BY <1>5 DEF Downloaded, Fail, GoOn, Return, Await, At
  <2>2. UNCHANGED <<page, installed, current, previous, saved, pending, cached>>
    BY <1>5 DEF Downloaded, world, checker
  <2>3. QED  BY <2>1, <2>2, RestKept DEF Kept, Label
<1>6. CASE BeginInstall(c) \/ PipInstalls(c) \/ Installed(c)
  <2>1. KInv' /\ (\/ Promise!Save \/ UNCHANGED Promise!updateVars \/ Promise!Install
                  \/ Promise!Record)
    BY <1>6, BeginInstallSaves, PipInstallsOne, InstalledRecords
  <2>2. QED  BY <2>1, KeepsThePromise DEF Kept
<1>7. CASE PipRollsBack(c) \/ RolledBack(c)
  BY <1>7, PipRollsBackGoes, RolledBackRecords, KeepsThePromise
<1>8. CASE At(c, "restart") /\ BeginRestart(c)
  BY <1>8, RestKept DEF Kept, BeginRestart, Await, At, disk, world, checker, Label
<1>9. CASE RestartFails(c)
  BY <1>9, RestKept DEF Kept, RestartFails, Return, Await, At, disk, world, updater, checker, Label
<1>10. CASE Restarts(c)
  <2>1. KInv' /\ Promise!Restart
    BY <1>10, NewProcessRestarts DEF Restarts
  <2>2. QED  BY <2>1, KeepsThePromise
<1>11. QED
  BY <1>0, <1>1, <1>2, <1>3, <1>4, <1>5, <1>6, <1>7, <1>8, <1>9, <1>10 DEF Step

LEMMA CrashKept == ASSUME KInv, IInv', Crash PROVE KInv' /\ Kept
<1>1. CASE NewProcess(saved)
  <2>1. KInv' /\ Promise!Restart
    BY <1>1, NewProcessRestarts
  <2>2. QED  BY <2>1, KeepsThePromise
<1>2. CASE (\E c \in Callers : At(c, "install")) /\ NewProcess(0)
  <2>1. PICK c \in Callers : pc[c] = "install"
    BY <1>2 DEF At
  <2>2. ~Half
    BY <2>1 DEF KInv, IInv, OneBusy, Half, Changing
  <2>3. KInv' /\ Promise!Restart
    BY <1>2, <2>2, NewProcessRestarts
  <2>4. QED  BY <2>3, KeepsThePromise
<1>3. QED  BY <1>1, <1>2 DEF Crash

LEMMA KeptAlways ==
  ASSUME KInv, IInv', [Next]_vars PROVE KInv' /\ Kept
<1>1. CASE Publish \/ Upload
  BY <1>1, PublishReleases, UploadKept, KeepsThePromise
<1>2. CASE Crash
  BY <1>2, CrashKept
<1>3. CASE \E c \in Callers : Call(c) \/ Step(c)
  BY <1>3, CallKept, StepKept
<1>4. CASE UNCHANGED vars
  <2>1. UNCHANGED <<page, installed, current, previous, saved, pending, cached, man, seen, pc,
                    overlapped>>
    BY <1>4 DEF vars, disk, world, updater, checker, locals
  <2>2. Known'
    BY <2>1, KnownStays DEF KInv
  <2>3. \A c \in Callers : Keeps(c)'
    BY <2>1 DEF KInv, Keeps, Ahead
  <2>4. UNCHANGED Promise!updateVars
    BY <2>1 DEF Promise!updateVars, Changing
  <2>5. QED  BY <2>2, <2>3, <2>4 DEF KInv, Kept
<1>5. QED  BY <1>1, <1>2, <1>3, <1>4 DEF Next

KSound == overlapped = TRUE \/ KInv

\* The updater keeps the promise of Update until a call has begun while another
\* was under way: the package and the version shown change in turns, an install
\* never goes back behind what is installed, and pip is called with the way back
\* on disk (OtaUpdater.install, rollback, _save_state, and the exceptions,
\* restarts and crashes between them).
THEOREM UpdateImplementedAlways == Spec => UpdateImplemented
<1>1. ASSUME Init PROVE KSound /\ Promise!Init
  <2>1. IInv
    BY <1>1, Initially
  <2>2. \A c \in Callers : pc[c] \in {"idle", "ended"}
    BY <1>1 DEF Init
  <2>3. Known /\ \A c \in Callers : Keeps(c)
    BY <1>1, <2>2 DEF Init, Known, Ahead, Keeps
  <2>4. Promise!Init
    BY <1>1, <2>2 DEF Init, Promise!Init, Changing
  <2>5. QED  BY <2>1, <2>3, <2>4 DEF KInv, KSound
<1>2. Spec => []Sound
  BY OtaInvariant
<1>3. KSound /\ Sound' /\ [Next]_vars => KSound' /\ [Promise!Next]_(Promise!updateVars)
  <2> SUFFICES ASSUME KSound, Sound', [Next]_vars
               PROVE  KSound' /\ [Promise!Next]_(Promise!updateVars)
    OBVIOUS
  <2>1. CASE overlapped' = TRUE
    BY <2>1 DEF KSound, Promise!Next, Promise!Lose
  <2>2. CASE overlapped' # TRUE
    <3>1. overlapped # TRUE
      BY <2>2, OverlapMoves DEF Begins
    <3>2. KInv /\ IInv'
      BY <2>2, <3>1 DEF KSound, Sound
    <3>3. KInv' /\ Kept
      BY <3>2, KeptAlways
    <3>4. QED  BY <3>3 DEF KSound, Kept
  <2>3. QED  BY <2>1, <2>2
<1>4. QED
  BY <1>1, <1>2, <1>3, PTL DEF Spec, UpdateImplemented, Promise!Spec
=============================================================================
