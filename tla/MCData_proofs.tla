------------------------------ MODULE MCData_proofs ------------------------------
(***************************************************************************)
(* Proofs about the data tables and the live update server, for any texts, *)
(* machines, versions, data, connections and numbers of calls.             *)
(*                                                                         *)
(* The live update server implements VersionStore, in the composition that *)
(* MCData is and by itself.  What it needs is that a listing waits only    *)
(* for a version that has its data (FileInv), and that a download goes on  *)
(* where the client's bytes end (DownloadInv).                             *)
(*                                                                         *)
(* The tables: the steps of an export rely on what the ones before made    *)
(* sure of (ExportInv, CheckedInv), what is loaded is what is read of its  *)
(* package, whose last table alone may have lost cells (LoadedInv, by      *)
(* PartRead), a refused package leaves no flag behind (RefusedInv),        *)
(* and a cursor has seen the ids from one of them up to where it is        *)
(* (CursorInv).                                                            *)
(***************************************************************************)
EXTENDS MCData, FiniteSetTheorems, SequenceTheorems, TLAPS

(* What a connection can hold: an upload that is looked at, a request that *)
(* waits for a file, a download, or an answer.                             *)
Reading == [op : {"log", "list", "denied"}, at : {"read", "hung"}]
Download == [op : {"load"}, at : {"exists", "stat", "stream", "hung"}, start : Nat, pos : Nat]
Answered(c) == \E o, b : c = [op |-> o, at |-> "answered", body |-> b]
ConnOK(c) ==
  c = Live!NoRequest \/ c \in Live!Uploads \/ c \in Reading \/ c \in Download \/ Answered(c)

ConnInv == conns = [s \in LiveSlots |-> conns[s]] /\ \A s \in LiveSlots : ConnOK(conns[s])

(* Every directory is that of an upload, and only versions that have their *)
(* data wait to be listed.                                                 *)
FileInv ==
  /\ DOMAIN dirs \subseteq Live!Versions \ {<<>>}
  /\ \A v \in DOMAIN dirs : dirs[v].data \in LiveData /\ dirs[v].files \subseteq Live!ToSet(Live!Files)
  /\ list \in Seq(Live!Versions)
  /\ \A a \in appends : a.to \in {"list", "log"} /\ a.line \in Live!Complete

(* There is one download at a time; it begins behind what the client has,  *)
(* and goes on behind what it has given him.                               *)
DownloadInv ==
  /\ wanted \in Live!Versions /\ got \in Seq([d : LiveData, i : Nat])
  /\ \A s, t \in LiveSlots : conns[s].op = "load" /\ conns[t].op = "load" => s = t
  /\ \A s \in LiveSlots : conns[s].op = "load" =>
       /\ conns[s].at \in {"exists", "stat"} => conns[s].start = Len(got)
       /\ conns[s].at = "stream" => conns[s].pos = Len(got)
       /\ conns[s].at \in {"stat", "stream"} => wanted \in Live!Complete

LiveInv == ConnInv /\ FileInv /\ DownloadInv /\ requests \in 0 .. LiveRequests

-----------------------------------------------------------------------------
(* The files that saveFiles has moved by its n-th call.                    *)
LEMMA FilesMoved ==
  ASSUME NEW u, NEW n \in 0 .. 4, n # 0
  PROVE  /\ Live!Directory(u, n).data = u.data
         /\ Live!Directory(u, n).files \subseteq Live!ToSet(Live!Files)
<1> DEFINE moved == SubSeq(Live!Files, 1, n - 1)
<1>1. Live!Files \in Seq({"version.txt", "data", "md5file.txt"}) /\ Len(Live!Files) = 3 /\ n - 1 \in 0 .. 3
  BY DEF Live!Files
<1>2. Len(moved) = n - 1 /\ \A i \in 1 .. n - 1 : moved[i] = Live!Files[i]
  BY <1>1
<1>3. DOMAIN moved = 1 .. n - 1 /\ DOMAIN Live!Files = 1 .. 3
  BY <1>1, <1>2
<1>4. Live!ToSet(moved) = {moved[i] : i \in 1 .. n - 1}
  BY <1>3 DEF Live!ToSet
<1>5. Live!ToSet(Live!Files) = {Live!Files[i] : i \in 1 .. 3}
  BY <1>3 DEF Live!ToSet
<1>6. Live!ToSet(moved) \subseteq Live!ToSet(Live!Files)
  BY <1>1, <1>2, <1>4, <1>5
<1> QED
  BY <1>6 DEF Live!Directory

(* When all of them are moved, the data are there.                         *)
LEMMA AllMoved ==
  ASSUME NEW u
  PROVE  "data" \in Live!Directory(u, Len(Live!Files) + 1).files
<1>1. Live!Files \in Seq({"version.txt", "data", "md5file.txt"}) /\ Len(Live!Files) = 3 /\ Live!Files[2] = "data"
  BY DEF Live!Files
<1>2. Live!Directory(u, 4).files = Live!ToSet(SubSeq(Live!Files, 1, 3))
  BY DEF Live!Directory
<1>3. DOMAIN SubSeq(Live!Files, 1, 3) = 1 .. 3 /\ SubSeq(Live!Files, 1, 3)[2] = "data"
  BY <1>1
<1>4. "data" \in Live!ToSet(SubSeq(Live!Files, 1, 3))
  BY <1>3 DEF Live!ToSet
<1> QED
  BY <1>1, <1>2, <1>4

(* The line of an append is one more on the list.                          *)
LEMMA OneMore ==
  ASSUME NEW U, NEW q \in Seq(U), NEW v
  PROVE  Live!ToSet(Append(q, v)) = Live!ToSet(q) \cup {v}
<1>1. DOMAIN q = 1 .. Len(q) /\ Len(q) \in Nat
  OBVIOUS
<1>2. /\ DOMAIN Append(q, v) = 1 .. Len(q) + 1
      /\ \A i \in 1 .. Len(q) : Append(q, v)[i] = q[i]
      /\ Append(q, v)[Len(q) + 1] = v
  OBVIOUS
<1> QED
  BY <1>1, <1>2 DEF Live!ToSet

(* What a connection does next.                                            *)
LEMMA Answering ==
  ASSUME ConnInv, NEW s \in LiveSlots, NEW body, Live!Answer(s, body)
  PROVE  /\ ConnInv'
         /\ \A t \in LiveSlots : /\ conns'[t].op = conns[t].op
                                 /\ conns'[t] = conns[t] \/ conns'[t].at = "answered"
<1>1. conns' = [conns EXCEPT ![s] = [op |-> conns[s].op, at |-> "answered", body |-> body]]
  BY DEF Live!Answer
<1>2. conns' = [t \in LiveSlots |-> conns'[t]]
  BY <1>1 DEF ConnInv
<1>3. ASSUME NEW t \in LiveSlots
      PROVE  conns'[t] = IF t = s THEN [op |-> conns[s].op, at |-> "answered", body |-> body]
                         ELSE conns[t]
  BY <1>1 DEF ConnInv
<1>4. ASSUME NEW t \in LiveSlots
      PROVE  ConnOK(conns'[t])
  <2>1. CASE t = s
    BY <1>3, <2>1 DEF ConnOK, Answered
  <2>2. CASE t # s
    BY <1>3, <2>2 DEF ConnInv
  <2> QED
    BY <2>1, <2>2
<1>5. ConnInv'
  BY <1>2, <1>4 DEF ConnInv, ConnOK, Answered, Live!NoRequest, Live!Uploads
<1> QED
  BY <1>3, <1>5

LEMMA Going ==
  ASSUME ConnInv, NEW s \in LiveSlots, NEW at, Live!Go(s, at),
         \/ conns[s] \in Reading /\ at \in {"read", "hung"}
         \/ conns[s] \in Download /\ at \in {"exists", "stat", "stream", "hung"}
  PROVE  /\ ConnInv'
         /\ \A t \in LiveSlots \ {s} : conns'[t] = conns[t]
         /\ conns'[s].op = conns[s].op /\ conns'[s].at = at
         /\ conns[s] \in Download => conns'[s].start = conns[s].start /\ conns'[s].pos = conns[s].pos
<1>1. conns' = [conns EXCEPT ![s].at = at]
  BY DEF Live!Go
<1>2. conns' = [t \in LiveSlots |-> conns'[t]]
  BY <1>1 DEF ConnInv
<1>3. \A t \in LiveSlots \ {s} : conns'[t] = conns[t]
  BY <1>1 DEF ConnInv
<1>4. conns'[s] = [conns[s] EXCEPT !.at = at]
  BY <1>1 DEF ConnInv
<1>5. /\ conns[s] \in Reading /\ at \in {"read", "hung"} =>
           conns'[s] \in Reading /\ conns'[s].op = conns[s].op /\ conns'[s].at = at
      /\ conns[s] \in Download /\ at \in {"exists", "stat", "stream", "hung"} =>
           /\ conns'[s] \in Download /\ conns'[s].op = conns[s].op /\ conns'[s].at = at
           /\ conns'[s].start = conns[s].start /\ conns'[s].pos = conns[s].pos
  BY <1>4 DEF Reading, Download
<1>6. ASSUME NEW t \in LiveSlots
      PROVE  ConnOK(conns'[t])
  <2>1. CASE t = s
    BY <1>5, <2>1 DEF ConnOK
  <2>2. CASE t # s
    BY <1>3, <2>2 DEF ConnInv
  <2> QED
    BY <2>1, <2>2
<1>7. ConnInv'
  BY <1>2, <1>6 DEF ConnInv, ConnOK, Answered, Live!NoRequest, Live!Uploads
<1>8. conns[s] \in Reading => conns[s] \notin Download
  BY DEF Reading, Download
<1> QED
  BY <1>3, <1>5, <1>7, <1>8

LEMMA Asking ==
  ASSUME LiveInv, NEW s \in LiveSlots, NEW request, ConnOK(request), Live!Ask(s, request)
  PROVE  /\ ConnInv' /\ conns'[s] = request
         /\ \A t \in LiveSlots \ {s} : conns'[t] = conns[t]
         /\ requests' \in 0 .. LiveRequests
         /\ UNCHANGED <<dirs, list, log, appends, wanted, got>>
<1>1. /\ conns' = [conns EXCEPT ![s] = request]
      /\ requests < LiveRequests /\ requests' = requests + 1
      /\ UNCHANGED <<dirs, list, log, appends, wanted, got>>
  BY DEF Live!Ask, Live!server
<1>2. conns' = [t \in LiveSlots |-> conns'[t]]
  BY <1>1 DEF LiveInv, ConnInv
<1>3. ASSUME NEW t \in LiveSlots
      PROVE  conns'[t] = IF t = s THEN request ELSE conns[t]
  BY <1>1 DEF LiveInv, ConnInv
<1>4. ASSUME NEW t \in LiveSlots
      PROVE  ConnOK(conns'[t])
  BY <1>3 DEF LiveInv, ConnInv
<1>5. ConnInv'
  BY <1>2, <1>4 DEF ConnInv, ConnOK, Answered, Live!NoRequest, Live!Uploads
<1> QED
  BY <1>1, <1>3, <1>5, LiveAssumption DEF LiveInv

(* The files stay as they are, and with them what is published.            *)
LEMMA FilesKept ==
  ASSUME FileInv, dirs' = dirs, list' = list, appends' \subseteq appends
  PROVE  FileInv' /\ Live!Complete' = Live!Complete
<1>1. Live!Complete' = Live!Complete
  BY DEF Live!Complete, Live!HasFile
<1> QED
  BY <1>1 DEF FileInv, Live!Versions, Live!Files, Live!ToSet

LEMMA Quiet ==
  ASSUME UNCHANGED <<dirs, list, wanted, got>>
  PROVE  UNCHANGED Live!Store!vars
BY DEF Live!Store!vars, Live!Complete, Live!HasFile, Live!ToSet

(* Downloads end or go on as they are, whatever other requests do.         *)
LEMMA Settles ==
  ASSUME LiveInv, ConnInv', FileInv', Live!Complete \subseteq Live!Complete',
         UNCHANGED <<wanted, got>>, requests' \in 0 .. LiveRequests,
         \A t \in LiveSlots : conns'[t].op = "load" =>
           /\ conns[t].op = "load"
           /\ conns'[t] = conns[t] \/ conns'[t].at \in {"answered", "hung"}
  PROVE  LiveInv'
<1>1. wanted' \in Live!Versions' /\ got' \in Seq([d : LiveData, i : Nat])
  BY DEF LiveInv, DownloadInv, Live!Versions
<1>2. \A s, t \in LiveSlots : conns'[s].op = "load" /\ conns'[t].op = "load" => s = t
  BY DEF LiveInv, DownloadInv
<1>3. ASSUME NEW s \in LiveSlots, conns'[s].op = "load"
      PROVE  /\ conns'[s].at \in {"exists", "stat"} => conns'[s].start = Len(got)
             /\ conns'[s].at = "stream" => conns'[s].pos = Len(got)
             /\ conns'[s].at \in {"stat", "stream"} => wanted \in Live!Complete'
  BY <1>3 DEF LiveInv, DownloadInv
<1> QED
  BY <1>1, <1>2, <1>3 DEF LiveInv, DownloadInv

(* Which connections are downloads.                                        *)
LEMMA LoadFacts ==
  ASSUME NEW c, ConnOK(c)
  PROVE  /\ c.op = "load" => c.at # "none" /\ (c \in Download \/ c.at = "answered")
         /\ c \in Live!Uploads => c.op = "upload" /\ c.at = "parse"
         /\ c.op = "upload" /\ c.at = "parse" => c \in Live!Uploads
         /\ c.op \in {"log", "list"} /\ c.at = "read" => c \in Reading
         /\ c.op = "load" /\ c.at \in {"exists", "stat", "stream"} => c \in Download
<1>1. CASE c = Live!NoRequest
  BY <1>1 DEF Live!NoRequest, Live!Uploads
<1>2. CASE c \in Live!Uploads
  BY <1>2 DEF Live!Uploads
<1>3. CASE c \in Reading
  BY <1>3 DEF Reading, Live!Uploads
<1>4. CASE c \in Download
  BY <1>4 DEF Download, Live!Uploads
<1>5. CASE Answered(c)
  BY <1>5 DEF Answered, Live!Uploads
<1> QED
  BY <1>1, <1>2, <1>3, <1>4, <1>5 DEF ConnOK

Promise == LiveInv' /\ [Live!Store!Next]_(Live!Store!vars)

-----------------------------------------------------------------------------
(* A request that is not for a download.                                   *)
LEMMA RequestKeeps ==
  ASSUME LiveInv, NEW s \in LiveSlots, Live!checkIP(s) \/ Live!request_route(s)
  PROVE  Promise
<1>1. PICK request : /\ ConnOK(request) /\ request.op # "load" /\ Live!Ask(s, request)
  <2>1. ASSUME NEW u \in Live!Uploads, Live!Ask(s, u)
        PROVE  ConnOK(u) /\ u.op # "load"
    BY LoadFacts DEF ConnOK, Live!Uploads
  <2>2. /\ [op |-> "log", at |-> "read"] \in Reading /\ [op |-> "list", at |-> "read"] \in Reading
        /\ [op |-> "denied", at |-> "hung"] \in Reading
        /\ Answered([op |-> "page", at |-> "answered", body |-> "page"])
    BY DEF Reading, Answered
  <2> QED
    BY <2>1, <2>2 DEF Live!checkIP, Live!request_route, ConnOK
<1>2. /\ ConnInv' /\ conns'[s] = request
      /\ \A t \in LiveSlots \ {s} : conns'[t] = conns[t]
      /\ requests' \in 0 .. LiveRequests
      /\ UNCHANGED <<dirs, list, log, appends, wanted, got>>
  BY <1>1, Asking
<1>3. FileInv' /\ Live!Complete' = Live!Complete
  BY <1>2, FilesKept DEF LiveInv
<1>4. LiveInv'
  BY <1>1, <1>2, <1>3, Settles
<1> QED
  BY <1>2, <1>4, Quiet DEF Promise

LEMMA DownLoadDataKeeps ==
  ASSUME LiveInv, NEW s \in LiveSlots, Live!DownLoadData(s)
  PROVE  Promise
<1>1. PICK request : request = [op |-> "load", at |-> "exists", start |-> Len(got), pos |-> 0]
  OBVIOUS
<1>2. Len(got) \in Nat
  BY DEF LiveInv, DownloadInv
<1>3. /\ request \in Download /\ request.op = "load" /\ request.at = "exists"
      /\ request.start = Len(got)
  BY <1>1, <1>2 DEF Download
<1>4. /\ ConnInv' /\ conns'[s] = request
      /\ \A t \in LiveSlots \ {s} : conns'[t] = conns[t]
      /\ requests' \in 0 .. LiveRequests
      /\ UNCHANGED <<dirs, list, log, appends, wanted, got>>
  BY <1>1, <1>3, Asking DEF Live!DownLoadData, ConnOK
<1>5. \A t \in LiveSlots : conns[t].op # "load"
  BY LoadFacts DEF LiveInv, ConnInv, Live!DownLoadData, Live!Downloading
<1>6. FileInv' /\ Live!Complete' = Live!Complete
  BY <1>4, FilesKept DEF LiveInv
<1>7. DownloadInv'
  <2>1. wanted' \in Live!Versions' /\ got' \in Seq([d : LiveData, i : Nat])
    BY <1>4 DEF LiveInv, DownloadInv, Live!Versions
  <2>2. \A t \in LiveSlots : conns'[t].op = "load" => t = s
    BY <1>4, <1>5
  <2> QED
    BY <1>3, <1>4, <2>1, <2>2 DEF DownloadInv
<1>8. LiveInv'
  BY <1>4, <1>6, <1>7 DEF LiveInv
<1> QED
  BY <1>4, <1>8, Quiet DEF Promise

(* A connection that is closed, by the client or with the process.         *)
LEMMA CloseKeeps ==
  ASSUME LiveInv, NEW Closed \in SUBSET LiveSlots,
         conns' = [t \in LiveSlots |-> IF t \in Closed THEN Live!NoRequest ELSE conns[t]],
         FileInv', Live!Complete \subseteq Live!Complete', UNCHANGED <<wanted, got, requests>>
  PROVE  LiveInv'
<1>1. ASSUME NEW t \in LiveSlots
      PROVE  ConnOK(conns'[t])
  BY DEF LiveInv, ConnInv, ConnOK
<1>2. ConnInv'
  BY <1>1 DEF ConnInv, ConnOK, Answered, Live!NoRequest, Live!Uploads
<1>3. Live!NoRequest.op # "load"
  BY DEF Live!NoRequest
<1>4. requests' \in 0 .. LiveRequests
  BY DEF LiveInv
<1> QED
  BY <1>2, <1>3, <1>4, Settles

LEMMA LeaveKeeps ==
  ASSUME LiveInv, NEW s \in LiveSlots, Live!Leave(s)
  PROVE  Promise
<1>1. conns' = [conns EXCEPT ![s] = Live!NoRequest]
      /\ UNCHANGED <<dirs, list, log, appends, wanted, got, requests>>
  BY DEF Live!Leave, Live!server
<1>2. conns' = [t \in LiveSlots |-> IF t \in {s} THEN Live!NoRequest ELSE conns[t]]
  BY <1>1 DEF LiveInv, ConnInv
<1>3. FileInv' /\ Live!Complete' = Live!Complete
  BY <1>1, FilesKept DEF LiveInv
<1>4. LiveInv'
  BY <1>1, <1>2, <1>3, CloseKeeps
<1> QED
  BY <1>1, <1>4, Quiet DEF Promise

LEMMA CrashKeeps ==
  ASSUME LiveInv, Live!Die, UNCHANGED <<dirs, list, wanted, got, requests>>
  PROVE  Promise
<1>1. conns' = [t \in LiveSlots |-> IF t \in LiveSlots THEN Live!NoRequest ELSE conns[t]]
      /\ appends' = {}
  BY DEF Live!Die
<1>2. FileInv' /\ Live!Complete' = Live!Complete
  BY <1>1, FilesKept DEF LiveInv
<1>3. LiveInv'
  BY <1>1, <1>2, CloseKeeps
<1> QED
  BY <1>3, Quiet DEF Promise

LEMMA RestartKeeps ==
  ASSUME LiveInv, Live!Restart
  PROVE  Promise
<1>1. /\ wanted' \in Live!Versions /\ got' = <<>>
      /\ UNCHANGED <<dirs, list, log, appends, conns, requests>>
  BY DEF Live!Restart, Live!server
<1>2. \A t \in LiveSlots : conns[t].op # "load"
  BY LoadFacts DEF LiveInv, ConnInv, Live!Restart, Live!Downloading
<1>3. FileInv' /\ Live!Complete' = Live!Complete
  BY <1>1, FilesKept DEF LiveInv
<1>4. ConnInv'
  BY <1>1 DEF LiveInv, ConnInv, ConnOK, Answered, Live!NoRequest, Live!Uploads
<1>5. DownloadInv'
  BY <1>1, <1>2 DEF DownloadInv, Live!Versions
<1>6. LiveInv'
  BY <1>1, <1>3, <1>4, <1>5 DEF LiveInv
<1>7. Live!Store!Restart
  BY <1>1, <1>3 DEF Live!Store!Restart, Live!ToSet
<1> QED
  BY <1>6, <1>7 DEF Promise, Live!Store!Next

LEMMA AnswerKeeps ==
  ASSUME LiveInv, NEW s \in LiveSlots, NEW body, Live!Answer(s, body),
         FileInv', Live!Complete \subseteq Live!Complete', UNCHANGED <<wanted, got, requests>>
  PROVE  LiveInv'
<1>1. /\ ConnInv'
      /\ \A t \in LiveSlots : /\ conns'[t].op = conns[t].op
                              /\ conns'[t] = conns[t] \/ conns'[t].at = "answered"
  BY Answering DEF LiveInv
<1>2. requests' \in 0 .. LiveRequests
  BY DEF LiveInv
<1> QED
  BY <1>1, <1>2, Settles

LEMMA UploadVersionHandleKeeps ==
  ASSUME LiveInv, NEW s \in LiveSlots, Live!UploadVersionHandle(s)
  PROVE  Promise
<1>1. UNCHANGED <<dirs, list, log, wanted, got, requests>>
  BY DEF Live!UploadVersionHandle
<1>2. CASE Live!Die
  BY <1>1, <1>2, CrashKeeps
<1>3. CASE Live!Answer(s, "md5 check error") /\ UNCHANGED appends
  <2>1. FileInv' /\ Live!Complete' = Live!Complete
    BY <1>1, <1>3, FilesKept DEF LiveInv
  <2>2. LiveInv'
    BY <1>1, <1>3, <2>1, AnswerKeeps
  <2> QED
    BY <1>1, <2>2, Quiet DEF Promise
<1> QED
  BY <1>2, <1>3 DEF Live!UploadVersionHandle

LEMMA ReadKeeps ==
  ASSUME LiveInv, NEW s \in LiveSlots, Live!getUploadLog(s) \/ Live!DownLoadList(s)
  PROVE  Promise
<1>1. /\ UNCHANGED <<dirs, list, log, appends, wanted, got, requests>>
      /\ conns[s].op \in {"log", "list"} /\ conns[s].at = "read"
  BY DEF Live!getUploadLog, Live!DownLoadList, Live!server
<1>2. FileInv' /\ Live!Complete' = Live!Complete
  BY <1>1, FilesKept DEF LiveInv
<1>3. Live!Answer(s, log) \/ Live!Answer(s, list) => LiveInv'
  BY <1>1, <1>2, AnswerKeeps
<1>4. ASSUME Live!Go(s, "hung")
      PROVE  LiveInv'
  <2>1. conns[s] \in Reading
    BY <1>1, LoadFacts DEF LiveInv, ConnInv
  <2>2. /\ ConnInv' /\ conns'[s].op = conns[s].op
        /\ \A t \in LiveSlots \ {s} : conns'[t] = conns[t]
    BY <1>4, <2>1, Going DEF LiveInv
  <2>3. requests' \in 0 .. LiveRequests /\ UNCHANGED <<wanted, got>>
    BY <1>1 DEF LiveInv
  <2>4. \A t \in LiveSlots : conns'[t].op = "load" => t # s /\ conns'[t] = conns[t]
    BY <1>1, <2>2
  <2>5. \A t \in LiveSlots : conns'[t].op = "load" =>
          /\ conns[t].op = "load"
          /\ conns'[t] = conns[t] \/ conns'[t].at \in {"answered", "hung"}
    BY <2>4
  <2> QED
    BY <1>2, <2>2, <2>3, <2>5, Settles
<1>5. LiveInv'
  BY <1>3, <1>4 DEF Live!getUploadLog, Live!DownLoadList
<1> QED
  BY <1>1, <1>5, Quiet DEF Promise

(* saveFiles may stop anywhere: the version is published by the call that  *)
(* moves its data, or not at all.                                          *)
LEMMA SaveEffect ==
  ASSUME FileInv, NEW u \in Live!Uploads, u.md5 = "right",
         NEW v, v = Live!trim_verID(u.text), ~Live!Exists(v),
         NEW n \in 0 .. 4, Live!Save(u, n)
  PROVE  /\ DOMAIN dirs' \subseteq Live!Versions \ {<<>>}
         /\ \A w \in DOMAIN dirs' : /\ dirs'[w].data \in LiveData
                                    /\ dirs'[w].files \subseteq Live!ToSet(Live!Files)
         /\ Live!Complete' \in {Live!Complete, Live!Complete \cup {v}}
         /\ n = 4 => v \in Live!Complete'
         /\ \A w \in Live!Complete : dirs'[w] = dirs[w]
         /\ v \notin Live!Complete /\ v \in Live!Versions /\ u.data \in LiveData
         /\ v \in Live!Complete' => dirs'[v].data = u.data
<1>1. u.text \in LiveTexts /\ u.data \in LiveData
  BY DEF Live!Uploads
<1>2. v \in Live!Versions /\ v # <<>> /\ v \notin DOMAIN dirs
  BY <1>1 DEF Live!Versions, Live!Exists
<1>3. v \notin Live!Complete /\ Live!Complete \subseteq DOMAIN dirs
  BY <1>2 DEF Live!Complete
<1>4. CASE n = 0
  <2>1. dirs' = dirs
    BY <1>4 DEF Live!Save
  <2>2. Live!Complete' = Live!Complete
    BY <2>1 DEF Live!Complete, Live!HasFile
  <2> QED
    BY <1>1, <1>2, <1>3, <1>4, <2>1, <2>2 DEF FileInv
<1>5. CASE n # 0
  <2>1. PICK d : d = Live!Directory(u, n)
    OBVIOUS
  <2>2. d.data = u.data /\ d.files \subseteq Live!ToSet(Live!Files)
    BY <1>5, <2>1, FilesMoved
  <2>3. dirs' = [w \in DOMAIN dirs \cup {v} |-> IF w = v THEN d ELSE dirs[w]]
    BY <1>5, <2>1 DEF Live!Save
  <2>4. /\ DOMAIN dirs' = DOMAIN dirs \cup {v} /\ dirs'[v] = d
        /\ \A w \in DOMAIN dirs : dirs'[w] = dirs[w]
    BY <1>2, <2>3
  <2>5. Live!Complete' = {w \in DOMAIN dirs' : "data" \in dirs'[w].files}
    BY DEF Live!Complete, Live!HasFile
  <2>6. Live!Complete = {w \in DOMAIN dirs : "data" \in dirs[w].files}
    BY DEF Live!Complete, Live!HasFile
  <2>7. Live!Complete' = IF "data" \in d.files THEN Live!Complete \cup {v} ELSE Live!Complete
    BY <1>2, <2>4, <2>5, <2>6
  <2>8. n = 4 => "data" \in d.files
    <3>1. Len(Live!Files) + 1 = 4
      BY DEF Live!Files
    <3> QED
      BY <2>1, <3>1, AllMoved
  <2> QED
    BY <1>1, <1>2, <1>3, <2>2, <2>4, <2>7, <2>8 DEF FileInv
<1> QED
  BY <1>4, <1>5

LEMMA saveFilesKeeps ==
  ASSUME LiveInv, NEW s \in LiveSlots, Live!saveFiles(s)
  PROVE  Promise
<1>1. PICK u, v : u = conns[s] /\ v = Live!trim_verID(u.text)
  OBVIOUS
<1>2. /\ u \in Live!Uploads /\ u.md5 = "right"
      /\ UNCHANGED <<list, log, wanted, got, requests>>
  BY <1>1, LoadFacts DEF LiveInv, ConnInv, Live!saveFiles
<1>3. CASE Live!Exists(v) /\ Live!Answer(s, "already exist") /\ UNCHANGED <<dirs, appends>>
  <2>1. FileInv' /\ Live!Complete' = Live!Complete
    BY <1>2, <1>3, FilesKept DEF LiveInv
  <2>2. LiveInv'
    BY <1>2, <1>3, <2>1, AnswerKeeps
  <2> QED
    BY <1>2, <1>3, <2>2, Quiet DEF Promise
<1>4. ASSUME ~Live!Exists(v), NEW n \in 0 .. 4, Live!Save(u, n),
             \/ /\ n = 4 /\ Live!Answer(s, "success")
                /\ appends' = appends \cup {[to |-> "log", line |-> v], [to |-> "list", line |-> v]}
             \/ Live!Answer(s, "parse data error") /\ UNCHANGED appends
             \/ Live!Die
      PROVE  Promise
  <2>1. /\ DOMAIN dirs' \subseteq Live!Versions \ {<<>>}
        /\ \A w \in DOMAIN dirs' : /\ dirs'[w].data \in LiveData
                                   /\ dirs'[w].files \subseteq Live!ToSet(Live!Files)
        /\ Live!Complete' \in {Live!Complete, Live!Complete \cup {v}}
        /\ n = 4 => v \in Live!Complete'
        /\ \A w \in Live!Complete : dirs'[w] = dirs[w]
        /\ v \notin Live!Complete /\ v \in Live!Versions /\ u.data \in LiveData
        /\ v \in Live!Complete' => dirs'[v].data = u.data
    BY <1>1, <1>2, <1>4, SaveEffect DEF LiveInv
  <2>2. \A a \in appends' : a.to \in {"list", "log"} /\ a.line \in Live!Complete'
    <3>1. \A a \in appends : a.to \in {"list", "log"} /\ a.line \in Live!Complete'
      BY <2>1 DEF LiveInv, FileInv
    <3>2. CASE n = 4 /\ appends' = appends \cup {[to |-> "log", line |-> v], [to |-> "list", line |-> v]}
      BY <2>1, <3>1, <3>2
    <3>3. CASE appends' = appends \/ appends' = {}
      BY <3>1, <3>3
    <3> QED
      BY <1>4, <3>2, <3>3 DEF Live!Die
  <2>3. FileInv'
    BY <1>2, <2>1, <2>2 DEF LiveInv, FileInv, Live!Versions, Live!Files, Live!ToSet
  <2>4. LiveInv'
    <3>1. CASE \E body : Live!Answer(s, body)
      BY <1>2, <2>1, <2>3, <3>1, AnswerKeeps
    <3>2. CASE Live!Die
      <4>1. conns' = [t \in LiveSlots |-> IF t \in LiveSlots THEN Live!NoRequest ELSE conns[t]]
        BY <3>2 DEF Live!Die
      <4> QED
        BY <1>2, <2>1, <2>3, <4>1, CloseKeeps
    <3> QED
      BY <1>4, <3>1, <3>2
  <2>5. [Live!Store!Next]_(Live!Store!vars)
    <3> DEFINE published == [w \in Live!Complete |-> dirs[w].data]
    <3>1. Live!ToSet(list)' = Live!ToSet(list)
      BY <1>2 DEF Live!ToSet
    <3>2. CASE Live!Complete' = Live!Complete
      <4>1. published' = published
        BY <2>1, <3>2
      <4> QED
        BY <1>2, <3>1, <4>1 DEF Live!Store!vars
    <3>3. CASE Live!Complete' = Live!Complete \cup {v}
      <4>1. DOMAIN published = Live!Complete
        OBVIOUS
      <4>2. published' = [w \in Live!Complete \cup {v} |-> IF w = v THEN u.data ELSE published[w]]
        BY <2>1, <3>3
      <4>3. Live!Store!Publish(v, u.data)
        BY <1>2, <2>1, <3>1, <4>1, <4>2 DEF Live!Store!Publish
      <4> QED
        BY <2>1, <4>3 DEF Live!Store!Next
    <3> QED
      BY <2>1, <3>2, <3>3
  <2> QED
    BY <2>4, <2>5 DEF Promise
<1>5. Len(Live!Files) = 3
  BY DEF Live!Files
<1>6. CASE /\ ~Live!Exists(v) /\ Live!Save(u, Len(Live!Files) + 1) /\ Live!Answer(s, "success")
           /\ appends' = appends \cup {[to |-> "log", line |-> v], [to |-> "list", line |-> v]}
  <2>1. Live!Save(u, 4)
    BY <1>5, <1>6
  <2> QED
    BY <1>4, <1>6, <2>1
<1>7. ASSUME ~Live!Exists(v), NEW n \in 0 .. Len(Live!Files), Live!Save(u, n),
             \/ Live!Answer(s, "parse data error") /\ UNCHANGED appends
             \/ Live!Die
      PROVE  Promise
  <2>1. n \in 0 .. 4
    BY <1>5
  <2> QED
    BY <1>4, <1>7, <2>1
<1> QED
  BY <1>1, <1>3, <1>6, <1>7 DEF Live!saveFiles

LEMMA appendFileKeeps ==
  ASSUME LiveInv, Live!appendFile
  PROVE  Promise
<1>1. PICK a \in appends :
        /\ appends' = appends \ {a}
        /\ \/ list' = Append(list, a.line) /\ UNCHANGED log
           \/ list' = list
        /\ UNCHANGED <<dirs, conns, wanted, got, requests>>
  BY DEF Live!appendFile
<1>2. a.line \in Live!Complete /\ a.line \in Live!Versions /\ list \in Seq(Live!Versions)
  BY DEF LiveInv, FileInv, Live!Complete
<1>3. Live!Complete' = Live!Complete
  BY <1>1 DEF Live!Complete, Live!HasFile
<1>4. list' \in Seq(Live!Versions)
  BY <1>1, <1>2
<1>5. FileInv'
  BY <1>1, <1>3, <1>4 DEF LiveInv, FileInv, Live!Versions, Live!Files, Live!ToSet
<1>6. ConnInv'
  BY <1>1 DEF LiveInv, ConnInv, ConnOK, Answered, Live!NoRequest, Live!Uploads
<1>7. LiveInv'
  BY <1>1, <1>3, <1>5, <1>6 DEF LiveInv, DownloadInv, Live!Versions
<1>8. CASE list' = list
  BY <1>1, <1>7, <1>8, Quiet DEF Promise
<1>9. CASE list' = Append(list, a.line)
  <2>1. Live!ToSet(list)' = Live!ToSet(list) \cup {a.line}
    <3>1. Live!ToSet(list') = Live!ToSet(list) \cup {a.line}
      BY <1>2, <1>9, OneMore
    <3> QED
      BY <3>1 DEF Live!ToSet
  <2>2. Live!Store!List(a.line)
    BY <1>1, <1>2, <1>3, <2>1 DEF Live!Store!List
  <2> QED
    BY <1>2, <1>7, <2>2 DEF Promise, Live!Store!Next
<1> QED
  BY <1>1, <1>8, <1>9

(* The steps of a download before its stream.                              *)
LEMMA DownloadKeeps ==
  ASSUME LiveInv, NEW s \in LiveSlots, Live!Download(s)
  PROVE  Promise
<1>1. /\ UNCHANGED <<dirs, list, log, appends, wanted, got, requests>>
      /\ conns[s].op = "load" /\ conns[s].at = "exists"
  BY DEF Live!Download, Live!server
<1>2. conns[s] \in Download /\ conns[s].start = Len(got)
  BY <1>1, LoadFacts DEF LiveInv, ConnInv, DownloadInv
<1>3. FileInv' /\ Live!Complete' = Live!Complete
  BY <1>1, FilesKept DEF LiveInv
<1>4. PICK at : /\ at \in {"stat", "hung"} /\ Live!Go(s, at)
                /\ at = "stat" => wanted \in Live!Complete
  BY DEF Live!Download, Live!Complete, Live!HasFile
<1>5. /\ ConnInv'
      /\ \A t \in LiveSlots \ {s} : conns'[t] = conns[t]
      /\ conns'[s].op = conns[s].op /\ conns'[s].at = at
      /\ conns'[s].start = conns[s].start
  BY <1>2, <1>4, Going DEF LiveInv
<1>6. \A t \in LiveSlots : conns'[t].op = "load" => t = s
  BY <1>1, <1>5 DEF LiveInv, DownloadInv
<1>7. DownloadInv'
  BY <1>1, <1>2, <1>3, <1>4, <1>5, <1>6 DEF LiveInv, DownloadInv, Live!Versions
<1>8. LiveInv'
  BY <1>1, <1>3, <1>5, <1>7 DEF LiveInv
<1> QED
  BY <1>1, <1>8, Quiet DEF Promise

LEMMA beginDownloadKeeps ==
  ASSUME LiveInv, NEW s \in LiveSlots, Live!beginDownload(s)
  PROVE  Promise
<1>1. /\ UNCHANGED <<dirs, list, log, appends, wanted, got, requests>>
      /\ conns[s].op = "load" /\ conns[s].at = "stat"
      /\ conns' = [conns EXCEPT ![s].at = "stream", ![s].pos = conns[s].start]
  BY DEF Live!beginDownload, Live!server
<1>2. conns[s] \in Download /\ conns[s].start = Len(got) /\ wanted \in Live!Complete
  BY <1>1, LoadFacts DEF LiveInv, ConnInv, DownloadInv
<1>3. /\ conns' = [t \in LiveSlots |-> conns'[t]]
      /\ \A t \in LiveSlots \ {s} : conns'[t] = conns[t]
      /\ conns'[s] = [conns[s] EXCEPT !.at = "stream", !.pos = conns[s].start]
  BY <1>1 DEF LiveInv, ConnInv
<1>4. conns'[s] \in Download /\ conns'[s].at = "stream" /\ conns'[s].pos = Len(got)
  BY <1>2, <1>3 DEF Download
<1>5. ASSUME NEW t \in LiveSlots
      PROVE  ConnOK(conns'[t])
  BY <1>3, <1>4 DEF LiveInv, ConnInv, ConnOK
<1>6. ConnInv'
  BY <1>3, <1>5 DEF ConnInv, ConnOK, Answered, Live!NoRequest, Live!Uploads
<1>7. FileInv' /\ Live!Complete' = Live!Complete
  BY <1>1, FilesKept DEF LiveInv
<1>8. \A t \in LiveSlots : conns'[t].op = "load" => t = s
  BY <1>1, <1>3 DEF LiveInv, DownloadInv
<1>9. DownloadInv'
  BY <1>1, <1>2, <1>4, <1>7, <1>8 DEF LiveInv, DownloadInv, Live!Versions
<1>10. LiveInv'
  BY <1>1, <1>6, <1>7, <1>9 DEF LiveInv
<1> QED
  BY <1>1, <1>10, Quiet DEF Promise

(* The next byte of the stream is the one the client does not have yet.    *)
LEMMA StreamKeeps ==
  ASSUME LiveInv, NEW s \in LiveSlots, Live!Stream(s)
  PROVE  Promise
<1>1. /\ UNCHANGED <<dirs, list, log, appends, wanted, requests>>
      /\ conns[s].op = "load" /\ conns[s].at = "stream"
  BY DEF Live!Stream, Live!server
<1>2. conns[s] \in Download /\ conns[s].pos = Len(got) /\ wanted \in Live!Complete
  BY <1>1, LoadFacts DEF LiveInv, ConnInv, DownloadInv
<1>3. FileInv' /\ Live!Complete' = Live!Complete
  BY <1>1, FilesKept DEF LiveInv
<1>4. CASE Live!Answer(s, "end") /\ got' = got
  <2>1. LiveInv'
    BY <1>1, <1>3, <1>4, AnswerKeeps
  <2> QED
    BY <1>1, <1>4, <2>1, Quiet DEF Promise
<1>5. CASE /\ conns[s].pos < LiveSize[dirs[wanted].data]
           /\ got' = Append(got, [d |-> dirs[wanted].data, i |-> conns[s].pos + 1])
           /\ conns' = [conns EXCEPT ![s].pos = @ + 1]
  <2>1. PICK d, n : d = dirs[wanted].data /\ n = Len(got)
    OBVIOUS
  <2>2. d \in LiveData /\ n \in Nat /\ got \in Seq([d : LiveData, i : Nat])
    BY <1>2, <2>1 DEF LiveInv, FileInv, DownloadInv, Live!Complete
  <2>3. [d |-> d, i |-> n + 1] \in [d : LiveData, i : Nat]
    BY <2>2
  <2>4. got' = Append(got, [d |-> d, i |-> n + 1])
    BY <1>2, <1>5, <2>1
  <2>5. got' \in Seq([d : LiveData, i : Nat]) /\ Len(got') = n + 1
    BY <2>1, <2>2, <2>3, <2>4
  <2>6. /\ conns' = [t \in LiveSlots |-> conns'[t]]
        /\ \A t \in LiveSlots \ {s} : conns'[t] = conns[t]
        /\ conns'[s] = [conns[s] EXCEPT !.pos = @ + 1]
    BY <1>5 DEF LiveInv, ConnInv
  <2>7. conns'[s] \in Download /\ conns'[s].at = "stream" /\ conns'[s].pos = n + 1
    BY <1>1, <1>2, <2>1, <2>2, <2>6 DEF Download
  <2>8. ASSUME NEW t \in LiveSlots
        PROVE  ConnOK(conns'[t])
    BY <2>6, <2>7 DEF LiveInv, ConnInv, ConnOK
  <2>9. ConnInv'
    BY <2>6, <2>8 DEF ConnInv, ConnOK, Answered, Live!NoRequest, Live!Uploads
  <2>10. \A t \in LiveSlots : conns'[t].op = "load" => t = s
    BY <1>1, <2>6 DEF LiveInv, DownloadInv
  <2>11. DownloadInv'
    BY <1>1, <1>2, <1>3, <2>5, <2>7, <2>10 DEF LiveInv, DownloadInv, Live!Versions
  <2>12. LiveInv'
    BY <1>1, <1>3, <2>9, <2>11 DEF LiveInv
  <2>13. Live!Store!Receive
    <3> DEFINE published == [w \in Live!Complete |-> dirs[w].data]
    <3>1. wanted \in DOMAIN published /\ published[wanted] = d
      BY <1>2, <2>1
    <3>2. published' = published /\ Live!ToSet(list)' = Live!ToSet(list) /\ wanted' = wanted
      BY <1>1, <1>3 DEF Live!ToSet
    <3>3. Len(got) < LiveSize[d] /\ got' = Append(got, [d |-> d, i |-> Len(got) + 1])
      BY <1>2, <1>5, <2>1, <2>4
    <3> QED
      BY <3>1, <3>2, <3>3 DEF Live!Store!Receive
  <2> QED
    BY <2>12, <2>13 DEF Promise, Live!Store!Next
<1> QED
  BY <1>4, <1>5 DEF Live!Stream

-----------------------------------------------------------------------------
(* The server begins empty, as the store does.                             *)
LEMMA LiveStarts ==
  ASSUME Live!Init
  PROVE  LiveInv /\ Live!Store!Init
<1>1. /\ dirs = <<>> /\ list = <<>> /\ appends = {} /\ got = <<>> /\ requests = 0
      /\ conns = [s \in LiveSlots |-> Live!NoRequest] /\ wanted \in Live!Versions
  BY DEF Live!Init
<1>2. DOMAIN dirs = {} /\ DOMAIN list = {}
  BY <1>1
<1>3. \A U : <<>> \in Seq(U)
  OBVIOUS
<1>4. ConnInv
  BY <1>1 DEF ConnInv, ConnOK
<1>5. FileInv
  BY <1>1, <1>2, <1>3 DEF FileInv
<1>6. DownloadInv
  BY <1>1, <1>3 DEF DownloadInv, Live!NoRequest
<1>7. Live!Complete = {}
  BY <1>2 DEF Live!Complete
<1>8. Live!ToSet(list) = {}
  BY <1>2 DEF Live!ToSet
<1> QED
  BY <1>1, <1>4, <1>5, <1>6, <1>7, <1>8, LiveAssumption DEF LiveInv, Live!Store!Init

(* Nothing happens.                                                        *)
LEMMA LiveRests ==
  ASSUME LiveInv, UNCHANGED liveVars
  PROVE  Promise
<1>1. UNCHANGED <<dirs, list, log, appends, conns, wanted, got, requests>>
  BY DEF liveVars
<1>2. PICK Closed \in SUBSET LiveSlots : Closed = {}
  OBVIOUS
<1>3. conns' = [t \in LiveSlots |-> IF t \in Closed THEN Live!NoRequest ELSE conns[t]]
  BY <1>1, <1>2 DEF LiveInv, ConnInv
<1>4. FileInv' /\ Live!Complete' = Live!Complete
  BY <1>1, FilesKept DEF LiveInv
<1>5. LiveInv'
  BY <1>1, <1>3, <1>4, CloseKeeps
<1> QED
  BY <1>1, <1>5, Quiet DEF Promise

(* Every step of the server is one of the store, or none.                  *)
LEMMA LiveStep ==
  ASSUME LiveInv, Live!Next
  PROVE  Promise
<1>1. ASSUME NEW s \in LiveSlots, Live!checkIP(s) \/ Live!request_route(s)
      PROVE  Promise
  BY <1>1, RequestKeeps
<1>2. ASSUME NEW s \in LiveSlots, Live!DownLoadData(s) \/ Live!Leave(s)
      PROVE  Promise
  BY <1>2, DownLoadDataKeeps, LeaveKeeps
<1>3. ASSUME NEW s \in LiveSlots, Live!Callback(s)
      PROVE  Promise
  BY <1>3, saveFilesKeeps, UploadVersionHandleKeeps, ReadKeeps, DownloadKeeps, beginDownloadKeeps,
     StreamKeeps DEF Live!Callback
<1>4. CASE Live!appendFile
  BY <1>4, appendFileKeeps
<1>5. CASE Live!Restart
  BY <1>5, RestartKeeps
<1>6. CASE Live!Crash
  BY <1>6, CrashKeeps DEF Live!Crash
<1>7. CASE Live!Done
  BY <1>7, LiveRests DEF Live!Done, Live!vars, liveVars
<1> QED
  BY <1>1, <1>2, <1>3, <1>4, <1>5, <1>6, <1>7 DEF Live!Next

(* The live update server by itself implements VersionStore.               *)
THEOREM ServerImplementsStore == Live!Spec => Live!KeepsPromises
<1>1. Live!Init => LiveInv /\ Live!Store!Init
  BY LiveStarts
<1>2. LiveInv /\ [Live!Next]_(Live!vars) => LiveInv' /\ [Live!Store!Next]_(Live!Store!vars)
  BY LiveStep, LiveRests DEF Promise, Live!vars, liveVars
<1> QED
  BY <1>1, <1>2, PTL DEF Live!Spec, Live!KeepsPromises, Live!Store!Spec

(* So does it beside the tables: what is published never changes and is    *)
(* listed only with its data, and a download gets every byte of it once    *)
(* and in order, through uploads at a time, errors, crashes and restarts.  *)
THEOREM PromisesKept == MCSpec => KeepsPromises
<1>1. MCInit => LiveInv /\ Live!Store!Init
  BY LiveStarts DEF MCInit
<1>2. LiveInv /\ [MCNext]_<<part, vars, liveVars>> => LiveInv' /\ [Live!Store!Next]_(Live!Store!vars)
  BY LiveStep, LiveRests DEF Promise, MCNext
<1> QED
  BY <1>1, <1>2, PTL DEF MCSpec, KeepsPromises, Live!KeepsPromises, Live!Store!Spec

-----------------------------------------------------------------------------
(* The data tables.  Ids are in order as unsigned numbers: those below 0   *)
(* come last.                                                              *)
LEMMA LessOrders ==
  ASSUME NEW a \in Int, NEW b \in Int, NEW c \in Int
  PROVE  ~Less(a, a) /\ (Less(a, b) \/ a = b \/ Less(b, a)) /\ (Less(a, b) /\ Less(b, c) => Less(a, c))
BY DEF Less

(* The rank of an id among finitely many: how many come before it.         *)
Smaller(U, a) == {other \in U : Less(other, a)}
Position(U, a) == Cardinality(Smaller(U, a)) + 1

LEMMA Ranked ==
  ASSUME NEW U, IsFiniteSet(U), U \subseteq Int
  PROVE  /\ Cardinality(U) \in Nat
         /\ \A a \in U : Position(U, a) \in 1 .. Cardinality(U)
         /\ \A a, b \in U : Less(a, b) => Position(U, a) < Position(U, b)
         /\ \A a, b \in U : Position(U, a) = Position(U, b) => a = b
         /\ \A i \in 1 .. Cardinality(U) : \E a \in U : Position(U, a) = i
<1> PICK n : n = Cardinality(U)
  OBVIOUS
<1>1. n \in Nat
  BY FS_CardinalityType
<1>2. ASSUME NEW a \in U
      PROVE  /\ IsFiniteSet(Smaller(U, a)) /\ Cardinality(Smaller(U, a)) \in Nat
             /\ Position(U, a) \in 1 .. n
  <2>1. IsFiniteSet(U \ {a}) /\ Cardinality(U \ {a}) = n - 1
    BY FS_RemoveElement
  <2>2. Smaller(U, a) \subseteq U \ {a}
    BY LessOrders DEF Smaller
  <2>3. IsFiniteSet(Smaller(U, a)) /\ Cardinality(Smaller(U, a)) <= n - 1
    BY <2>1, <2>2, FS_Subset
  <2>4. Cardinality(Smaller(U, a)) \in Nat
    BY <2>3, FS_CardinalityType
  <2> QED
    BY <1>1, <2>3, <2>4 DEF Position
<1>3. ASSUME NEW a \in U, NEW b \in U, Less(a, b)
      PROVE  Position(U, a) < Position(U, b)
  <2>0. a \in Int /\ b \in Int /\ Less(a, b) /\ a \in U
    BY <1>3
  <2>1. Smaller(U, a) \cup {a} \subseteq Smaller(U, b)
    <3>1. a \in Smaller(U, b)
      BY <2>0 DEF Smaller
    <3>2. ASSUME NEW x \in Smaller(U, a)
          PROVE  x \in Smaller(U, b)
      <4>1. x \in U /\ Less(x, a) /\ x \in Int
        BY DEF Smaller
      <4>2. Less(x, b)
        BY <4>1, <2>0, LessOrders
      <4> QED
        BY <4>1, <4>2 DEF Smaller
    <3> QED
      BY <3>1, <3>2
  <2>2. a \notin Smaller(U, a)
    BY <2>0, LessOrders DEF Smaller
  <2>3. Cardinality(Smaller(U, a) \cup {a}) = Cardinality(Smaller(U, a)) + 1
    BY <1>2, <2>2, FS_AddElement
  <2>4. Cardinality(Smaller(U, a) \cup {a}) <= Cardinality(Smaller(U, b))
    BY <1>2, <2>1, FS_Subset
  <2>5. Cardinality(Smaller(U, a)) \in Nat /\ Cardinality(Smaller(U, b)) \in Nat
    BY <1>2
  <2> QED
    BY <2>3, <2>4, <2>5 DEF Position
<1>4. ASSUME NEW a \in U, NEW b \in U, Position(U, a) = Position(U, b)
      PROVE  a = b
  <2>1. a \in Int /\ b \in Int /\ Position(U, a) \in Int
    BY <1>1, <1>2
  <2>2. ~Less(a, b) /\ ~Less(b, a)
    BY <1>3, <1>4, <2>1
  <2> QED
    BY <2>1, <2>2, LessOrders
<1> PICK rank : rank = [a \in U |-> Position(U, a)]
  OBVIOUS
<1>5. rank \in Injection(U, 1 .. n)
  BY <1>2, <1>4 DEF Injection, IsInjective
<1>6. IsFiniteSet(1 .. n) /\ Cardinality(1 .. n) = n
  BY <1>1, FS_Interval
<1>7. rank \in Surjection(U, 1 .. n)
  BY <1>5, <1>6, FS_Injection
<1>8. \A i \in 1 .. n : \E a \in U : rank[a] = i
  BY <1>7 DEF Surjection
<1> QED
  BY <1>1, <1>2, <1>3, <1>4, <1>8

(* Ids has every id of a table once, in their order.                       *)
LEMMA IdsSorted ==
  ASSUME NEW t, IsFiniteSet(DOMAIN t.rows), DOMAIN t.rows \subseteq Int
  PROVE  /\ Cardinality(DOMAIN t.rows) \in Nat
         /\ Ids(t) \in [1 .. Cardinality(DOMAIN t.rows) -> DOMAIN t.rows]
         /\ \A i, j \in 1 .. Cardinality(DOMAIN t.rows) : Ids(t)[i] = Ids(t)[j] => i = j
         /\ \A i, j \in 1 .. Cardinality(DOMAIN t.rows) : i < j => Less(Ids(t)[i], Ids(t)[j])
         /\ \A id \in DOMAIN t.rows : \E i \in 1 .. Cardinality(DOMAIN t.rows) : Ids(t)[i] = id
<1> PICK U, n : U = DOMAIN t.rows /\ n = Cardinality(U)
  OBVIOUS
<1>1. /\ U \subseteq Int /\ n \in Nat
      /\ \A a \in U : Position(U, a) \in 1 .. n
      /\ \A a, b \in U : Less(a, b) => Position(U, a) < Position(U, b)
      /\ \A a, b \in U : Position(U, a) = Position(U, b) => a = b
      /\ \A i \in 1 .. n : \E a \in U : Position(U, a) = i
  BY Ranked
<1>2. Ids(t) = [i \in 1 .. n |-> CHOOSE a \in U : Cardinality(Smaller(U, a)) = i - 1]
  BY DEF Ids, Smaller
<1>3. ASSUME NEW i \in 1 .. n
      PROVE  Ids(t)[i] \in U /\ Position(U, Ids(t)[i]) = i
  <2>1. PICK a \in U : Position(U, a) = i
    BY <1>1
  <2>2. Cardinality(Smaller(U, a)) \in Nat
    BY <1>1, FS_Subset, FS_CardinalityType DEF Smaller
  <2>3. Cardinality(Smaller(U, a)) = i - 1
    BY <2>1, <2>2 DEF Position
  <2>4. Ids(t)[i] \in U /\ Cardinality(Smaller(U, Ids(t)[i])) = i - 1
    BY <1>2, <2>3
  <2> QED
    BY <2>4 DEF Position
<1>4. Ids(t) \in [1 .. n -> U]
  BY <1>2, <1>3
<1>5. \A a \in U : Ids(t)[Position(U, a)] = a
  BY <1>1, <1>3
<1>6. ASSUME NEW i \in 1 .. n, NEW j \in 1 .. n, i < j
      PROVE  Less(Ids(t)[i], Ids(t)[j])
  <2> PICK a, b : a = Ids(t)[i] /\ b = Ids(t)[j]
    OBVIOUS
  <2>1. a \in U /\ b \in U /\ Position(U, a) = i /\ Position(U, b) = j
    BY <1>3
  <2>2. a \in Int /\ b \in Int /\ ~Less(b, a) /\ a # b
    BY <1>1, <1>6, <2>1
  <2> QED
    BY <2>2, LessOrders
<1>7. \A i, j \in 1 .. n : Ids(t)[i] = Ids(t)[j] => i = j
  BY <1>3
<1> QED
  BY <1>1, <1>4, <1>5, <1>6, <1>7

(* Tables, databases and packages as they can be.                          *)
TableOK(t) ==
  /\ t = [names |-> t.names, aliases |-> t.aliases, types |-> t.types, rows |-> t.rows]
  /\ t.names \in Seq(ToSet(t.names)) /\ t.aliases \in Seq(ToSet(t.aliases)) /\ Len(t.aliases) = Len(t.names)
  /\ \A i, j \in DOMAIN t.names : i # j => t.names[i] \notin {t.names[j], t.aliases[j]}
  /\ IsFiniteSet(DOMAIN t.rows) /\ DOMAIN t.rows \subseteq Int
  /\ t.rows = [id \in DOMAIN t.rows |-> t.rows[id]]
  /\ \A id \in DOMAIN t.rows : t.rows[id] = [i \in DOMAIN t.names |-> t.rows[id][i]]

TablesOK(ts) ==
  /\ ts = [n \in DOMAIN ts |-> ts[n]] /\ DOMAIN ts \subseteq ToSet(Names)
  /\ \A n \in DOMAIN ts : TableOK(ts[n])

DbOK(db) == db \in [loaded : BOOLEAN, tables : {db.tables}] /\ TablesOK(db.tables)

PartOK(p) ==
  /\ p \in [table : {p.table}, count : {Cardinality(DOMAIN p.table.rows) % CountSize},
            damaged : BOOLEAN, cut : {p.cut}]
  /\ TableOK(p.table)

PartsOK(ps) ==
  /\ ps = [n \in DOMAIN ps |-> ps[n]] /\ DOMAIN ps \subseteq ToSet(Names)
  /\ \A n \in DOMAIN ps : PartOK(ps[n])

FileOK(file) ==
  \/ file \in {None, Torn}
  \/ file \in [order : Orders, swapped : BOOLEAN, tables : {file.tables}] /\ PartsOK(file.tables)

(* The columns of a table stay in order when its rows change.              *)
LEMMA SameColumns ==
  ASSUME NEW t, NEW u, TableOK(t), u.names = t.names, u.aliases = t.aliases
  PROVE  /\ u.names \in Seq(ToSet(u.names)) /\ u.aliases \in Seq(ToSet(u.aliases))
         /\ Len(u.aliases) = Len(u.names)
         /\ \A i, j \in DOMAIN u.names : i # j => u.names[i] \notin {u.names[j], u.aliases[j]}
<1>1. /\ t.names \in Seq(ToSet(t.names)) /\ t.aliases \in Seq(ToSet(t.aliases))
      /\ Len(t.aliases) = Len(t.names)
  BY DEF TableOK
<1>2. \A i, j \in DOMAIN t.names : i # j => t.names[i] \notin {t.names[j], t.aliases[j]}
  BY DEF TableOK
<1> QED
  BY <1>1, <1>2

(* What is written of a number is not more, and all of it when it fits.    *)
LEMMA RestOfCount ==
  ASSUME NEW n \in Nat, NEW size \in Nat \ {0}
  PROVE  n % size \in 0 .. n /\ (n < size => n % size = n)
  OBVIOUS

(* What is read of a table has its columns, and in its rows no other cells *)
(* than empty ones and those of the table; and it is the table when all    *)
(* of it is there and its rows could be counted.                           *)
NoneInvented(seen, wrote) ==
  \A id \in DOMAIN seen.rows : \A i \in DOMAIN seen.rows[id] :
    seen.rows[id][i] # Empty => id \in DOMAIN wrote.rows /\ seen.rows[id][i] = wrote.rows[id][i]

LEMMA PartRead ==
  ASSUME NEW file, NEW n, PartOK(file.tables[n])
  PROVE  /\ TableOK(LoadBinTable(file, n))
         /\ LoadBinTable(file, n) = [file.tables[n].table EXCEPT !.rows = LoadBinTable(file, n).rows]
         /\ NoneInvented(LoadBinTable(file, n), file.tables[n].table)
         /\ ~Spills(file, n) /\ file.tables[n].cut = <<>> => LoadBinTable(file, n) = file.tables[n].table
         /\ Cardinality(DOMAIN file.tables[n].table.rows) < CountSize => ~Spills(file, n)
<1> PICK p, t, k, ids : p = file.tables[n] /\ t = p.table /\ k = Cardinality(DOMAIN t.rows) /\ ids = Ids(t)
  OBVIOUS
<1>a. TableOK(t) /\ p.count = k % CountSize
  BY DEF PartOK
<1>1. /\ k \in Nat /\ CountSize \in Nat \ {0}
      /\ ids \in [1 .. k -> DOMAIN t.rows]
      /\ \A i, j \in 1 .. k : ids[i] = ids[j] => i = j
      /\ \A id \in DOMAIN t.rows : \E i \in 1 .. k : ids[i] = id
  <2>1. IsFiniteSet(DOMAIN t.rows) /\ DOMAIN t.rows \subseteq Int
    BY <1>a DEF TableOK
  <2>2. CountSize \in Nat \ {0}
    BY CountAssumption
  <2> QED
    BY <2>1, <2>2, IdsSorted
<1>2. p.count \in 0 .. k /\ (k < CountSize => p.count = k)
  BY <1>a, <1>1, RestOfCount
<1> DEFINE kept == {j \in 1 .. p.count : There(p, j, 1)}
           read == {ids[j] : j \in kept}
           zero == IF LosesRows(p) THEN {0} ELSE {}
           Cell(j, i) == IF There(p, j, i) THEN t.rows[ids[j]][i] ELSE Empty
           Row(id) == [i \in DOMAIN t.names |->
                         IF id \in read THEN Cell(CHOOSE j \in kept : ids[j] = id, i) ELSE Empty]
           rows == [id \in read \cup zero |-> Row(id)]
<1>3. read \subseteq DOMAIN t.rows
  BY <1>1, <1>2
<1>4. LoadBinTable(file, n) = [t EXCEPT !.rows = rows]
  BY DEF LoadBinTable
<1>5. t = [names |-> t.names, aliases |-> t.aliases, types |-> t.types, rows |-> t.rows]
      /\ IsFiniteSet(DOMAIN t.rows) /\ DOMAIN t.rows \subseteq Int
      /\ t.rows = [id \in DOMAIN t.rows |-> t.rows[id]]
      /\ \A id \in DOMAIN t.rows : t.rows[id] = [i \in DOMAIN t.names |-> t.rows[id][i]]
  BY <1>a DEF TableOK
<1>b. /\ DOMAIN rows = read \cup zero /\ rows = [id \in DOMAIN rows |-> rows[id]]
      /\ \A id \in DOMAIN rows : rows[id] = [i \in DOMAIN t.names |-> rows[id][i]]
  OBVIOUS
<1>c. ASSUME NEW id \in DOMAIN rows, NEW i \in DOMAIN rows[id], rows[id][i] # Empty
      PROVE  id \in DOMAIN t.rows /\ rows[id][i] = t.rows[id][i]
  <2>1. id \in read /\ rows[id][i] = Cell(CHOOSE j \in kept : ids[j] = id, i)
    BY <1>c
  <2>2. PICK j : j = CHOOSE x \in kept : ids[x] = id
    OBVIOUS
  <2>3. j \in kept /\ ids[j] = id
    BY <2>1, <2>2
  <2>4. rows[id][i] = t.rows[ids[j]][i]
    BY <1>c, <2>1, <2>2
  <2> QED
    BY <1>3, <2>1, <2>3, <2>4
<1>d. ASSUME p.count = k, p.cut = <<>>
      PROVE  rows = t.rows
  <2>1. kept = 1 .. k /\ zero = {} /\ \A j, i : There(p, j, i)
    BY <1>d DEF There, LosesRows
  <2>2. read = DOMAIN t.rows
    BY <1>1, <2>1
  <2>3. ASSUME NEW id \in DOMAIN t.rows
        PROVE  rows[id] = t.rows[id]
    <3>1. PICK j : j = CHOOSE x \in kept : ids[x] = id
      OBVIOUS
    <3>2. ids[j] = id
      BY <1>1, <2>1, <3>1
    <3>3. rows[id] = [i \in DOMAIN t.names |-> t.rows[ids[j]][i]]
      BY <2>1, <2>2, <3>1
    <3> QED
      BY <1>5, <3>2, <3>3
  <2> QED
    BY <1>5, <2>1, <2>2, <2>3
<1>7. IsFiniteSet(DOMAIN rows) /\ DOMAIN rows \subseteq Int
  <2>a. PICK a, b : a = read /\ b = zero
    OBVIOUS
  <2>b. a \subseteq DOMAIN t.rows /\ b \subseteq {0}
    BY <1>3, <2>a
  <2>5. DOMAIN rows = a \cup b
    BY <1>b, <2>a
  <2> HIDE DEF rows, read, zero
  <2>1. IsFiniteSet(a) /\ a \subseteq Int
    <3>1. IsFiniteSet(DOMAIN t.rows) /\ DOMAIN t.rows \subseteq Int
      BY <1>5
    <3> QED
      BY <2>b, <3>1, FS_Subset
  <2>2. IsFiniteSet(b) /\ b \subseteq Int
    <3>1. PICK one : one = {0}
      OBVIOUS
    <3>a. IsFiniteSet(one)
      BY Zenon, <3>1, FS_Singleton
    <3>2. IsFiniteSet(b)
      BY <2>b, <3>1, <3>a, FS_Subset
    <3> QED
      BY <2>b, <3>2
  <2>4. IsFiniteSet(a \cup b) /\ a \cup b \subseteq Int
    BY <2>1, <2>2, FS_Union
  <2> QED
    BY <2>4, <2>5
<1> PICK u : u = LoadBinTable(file, n)
  OBVIOUS
<1> HIDE DEF rows
<1>6. u = [names |-> t.names, aliases |-> t.aliases, types |-> t.types, rows |-> rows]
  BY <1>4, <1>5
<1>e. u.names = t.names /\ u.aliases = t.aliases /\ u.types = t.types /\ u.rows = rows
  BY <1>6
<1>8. TableOK(u)
  <2>1. u = [names |-> u.names, aliases |-> u.aliases, types |-> u.types, rows |-> u.rows]
    BY <1>6, <1>e
  <2>2. /\ u.names \in Seq(ToSet(u.names)) /\ u.aliases \in Seq(ToSet(u.aliases))
        /\ Len(u.aliases) = Len(u.names)
        /\ \A i, j \in DOMAIN u.names : i # j => u.names[i] \notin {u.names[j], u.aliases[j]}
    BY ZenonT(60), <1>a, <1>e, SameColumns
  <2>3. /\ u.rows = [id \in DOMAIN u.rows |-> u.rows[id]]
        /\ \A id \in DOMAIN u.rows : u.rows[id] = [i \in DOMAIN u.names |-> u.rows[id][i]]
        /\ IsFiniteSet(DOMAIN u.rows) /\ DOMAIN u.rows \subseteq Int
    BY ZenonT(60), <1>b, <1>e, <1>7
  <2> QED
    BY <2>1, <2>2, <2>3 DEF TableOK
<1>9. u = [t EXCEPT !.rows = u.rows]
  BY <1>4, <1>e
<1>f. p.count = k /\ p.cut = <<>> => u = t
  BY <1>d, <1>5, <1>6
<1>11. NoneInvented(u, t)
  BY <1>c, <1>e DEF NoneInvented
<1> QED
  BY <1>2, <1>8, <1>9, <1>11, <1>f DEF Spills

(* What is loaded from a text is such a table.                             *)
LEMMA TextLoaded ==
  ASSUME NEW tx \in Texts, NEW n \in DOMAIN tx.files, loadFromText(tx.files[n]) # None
  PROVE  TableOK(loadFromText(tx.files[n]))
<1> PICK t, u : t = tx.files[n] /\ u = loadFromText(t)
  OBVIOUS
<1>1. parseTableTypeInfo(t) # None
  BY DEF loadFromText
<1>2. Len(t.aliases) = Len(t.names)
  BY <1>1 DEF parseTableTypeInfo
<1>e. PICK types : types = [parseTableTypeInfo(t) EXCEPT ![1] = IF @ = "FLOAT" THEN "INT" ELSE @]
  OBVIOUS
<1>a. DOMAIN types = DOMAIN t.names
  BY <1>1, <1>e DEF parseTableTypeInfo
<1> DEFINE Row(m) == [i \in DOMAIN types |->
                        IF Cells(t, i)[m] = Empty THEN Empty ELSE [kind |-> types[i], v |-> t.rows[m][i].v]]
           ids == {RowId(t.rows[m]) : m \in DOMAIN t.rows}
<1>f. PICK rows : rows = [id \in ids |-> Row(CHOOSE m \in DOMAIN t.rows : RowId(t.rows[m]) = id)]
  OBVIOUS
<1>b. \A id \in ids : rows[id] = [i \in DOMAIN t.names |-> rows[id][i]]
  BY <1>a, <1>f
<1>c. u = [names |-> t.names, aliases |-> t.aliases, types |-> types, rows |-> rows]
  BY <1>1, <1>e, <1>f DEF loadFromText
<1>d. DOMAIN rows = ids /\ rows = [id \in DOMAIN rows |-> rows[id]]
  BY <1>f
<1> HIDE DEF ids, Row
<1>3. /\ u.names = t.names /\ u.aliases = t.aliases /\ u.types = types /\ u.rows = rows
  BY <1>c
<1>4. /\ t.names \in Seq(ToSet(t.names)) /\ t.aliases \in Seq(ToSet(t.aliases))
      /\ \A i \in DOMAIN t.names, j \in DOMAIN t.names \cap DOMAIN t.aliases :
           i # j => t.names[i] \notin {t.names[j], t.aliases[j]}
      /\ t.rows \in Seq(ToSet(t.rows)) /\ \A m \in DOMAIN t.rows : RowId(t.rows[m]) \in Int
  BY TextAssumption
<1>5. DOMAIN t.rows = 1 .. Len(t.rows) /\ Len(t.rows) \in Nat
  BY <1>4
<1>6. IsFiniteSet(DOMAIN t.rows)
  BY <1>5, FS_Interval
<1>7. IsFiniteSet({RowId(t.rows[m]) : m \in DOMAIN t.rows})
  <2> PICK f : f = [m \in DOMAIN t.rows |-> RowId(t.rows[m])]
    OBVIOUS
  <2>1. f \in Surjection(DOMAIN t.rows, {RowId(t.rows[m]) : m \in DOMAIN t.rows})
    BY DEF Surjection
  <2> QED
    BY <1>6, <2>1, FS_Surjection
<1>8. DOMAIN t.names = DOMAIN t.aliases
  BY <1>2, <1>4
<1>9. u.names = t.names /\ u.aliases = t.aliases
  BY <1>3
<1>10. /\ u.names \in Seq(ToSet(u.names)) /\ u.aliases \in Seq(ToSet(u.aliases))
       /\ Len(u.aliases) = Len(u.names)
       /\ \A i, j \in DOMAIN u.names : i # j => u.names[i] \notin {u.names[j], u.aliases[j]}
  BY SMTT(30), <1>2, <1>4, <1>8, <1>9
<1>11. u = [names |-> u.names, aliases |-> u.aliases, types |-> u.types, rows |-> u.rows]
  BY <1>c, <1>3
<1>12. u.rows = [id \in DOMAIN u.rows |-> u.rows[id]] /\ DOMAIN u.rows = {RowId(t.rows[m]) : m \in DOMAIN t.rows}
  BY <1>d, <1>3 DEF ids
<1>13. IsFiniteSet(DOMAIN u.rows) /\ DOMAIN u.rows \subseteq Int
  BY ZenonT(60), <1>4, <1>7, <1>12
<1>14. \A id \in DOMAIN u.rows : u.rows[id] = [i \in DOMAIN u.names |-> u.rows[id][i]]
  BY <1>b, <1>d, <1>3
<1>15. TableOK(u)
  BY <1>10, <1>11, <1>12, <1>13, <1>14 DEF TableOK
<1> QED
  BY <1>15

(* A database that takes over tables.                                      *)
LEMMA TablesAdded ==
  ASSUME NEW ts, TablesOK(ts), NEW U, U \subseteq ToSet(Names), NEW new,
         \A n \in U : TableOK(new[n])
  PROVE  TablesOK([n \in DOMAIN ts \cup U |-> IF n \in DOMAIN ts THEN ts[n] ELSE new[n]])
BY DEF TablesOK

LEMMA NewDatabaseOK == DbOK(NewDatabase) /\ NewDatabase.tables = <<>> /\ NewDatabase.loaded = FALSE /\ DOMAIN NewDatabase.tables = {}
<1>1. NewDatabase.tables = <<>> /\ NewDatabase.loaded = FALSE
  BY DEF NewDatabase
<1>2. DOMAIN NewDatabase.tables = {}
  BY <1>1
<1>3. NewDatabase \in [loaded : BOOLEAN, tables : {NewDatabase.tables}]
  BY DEF NewDatabase
<1>4. NewDatabase.tables = [n \in DOMAIN NewDatabase.tables |-> NewDatabase.tables[n]]
  BY <1>1
<1> QED
  BY <1>1, <1>2, <1>3, <1>4 DEF DbOK, TablesOK

(* What is read from the text is one, too.                                 *)
LEMMA TextRead ==
  ASSUME NEW tx \in Texts, NEW db, DbOK(db)
  PROVE  DbOK(_loadText(db, tx)) /\ DbOK(LoadFromText(db, tx))
<1> DEFINE loaded == [n \in DOMAIN tx.files |-> loadFromText(tx.files[n])]
           read == {tx.list[i] : i \in {i \in DOMAIN tx.list : \A j \in 1..i : loaded[tx.list[j]] # None}}
           tables == [n \in DOMAIN db.tables \cup read |->
                        IF n \in DOMAIN db.tables THEN db.tables[n] ELSE loaded[n]]
           versioned == [n \in DOMAIN tables \cup {"version.xlsx"} |->
                           IF n \in DOMAIN tables THEN tables[n] ELSE loaded["version"]]
<1>1. ToSet(tx.list) \subseteq DOMAIN tx.files \cap ToSet(Names) /\ "version" \in DOMAIN tx.files
      /\ "version.xlsx" \in ToSet(Names)
  BY TextAssumption, NamesAssumption
<1>0. DOMAIN tx.list = 1 .. Len(tx.list) /\ Len(tx.list) \in Nat
  BY TextAssumption
<1>2. _loadText(db, tx) = IF read # ToSet(tx.list) THEN [db EXCEPT !.tables = tables]
                          ELSE IF "version" \in DOMAIN tables THEN [loaded |-> TRUE, tables |-> tables]
                          ELSE IF loaded["version"] = None THEN [db EXCEPT !.tables = tables]
                          ELSE [loaded |-> TRUE, tables |-> versioned]
  BY DEF _loadText
<1>4. \A n \in DOMAIN tx.files : loaded[n] # None => TableOK(loaded[n])
  BY TextLoaded
<1> HIDE DEF loaded
<1>3. read \subseteq ToSet(tx.list) /\ \A n \in read : loaded[n] # None
  <2>1. ASSUME NEW i \in DOMAIN tx.list, \A j \in 1 .. i : loaded[tx.list[j]] # None
        PROVE  tx.list[i] \in ToSet(tx.list) /\ loaded[tx.list[i]] # None
    <3>1. i \in 1 .. i
      BY <1>0
    <3> QED
      BY <2>1, <3>1 DEF ToSet
  <2> QED
    BY <2>1
<1> HIDE DEF read
<1>5. TablesOK(tables)
  <2>1. \A n \in read : TableOK(loaded[n])
    BY <1>1, <1>3, <1>4
  <2>2. read \subseteq ToSet(Names) /\ TablesOK(db.tables)
    BY <1>1, <1>3 DEF DbOK
  <2> QED
    BY <2>1, <2>2, TablesAdded
<1> HIDE DEF tables
<1>6. loaded["version"] # None => TablesOK(versioned)
  <2> SUFFICES ASSUME loaded["version"] # None PROVE TablesOK(versioned)
    OBVIOUS
  <2> PICK new : new = [n \in {"version.xlsx"} |-> loaded["version"]]
    OBVIOUS
  <2>1. versioned = [n \in DOMAIN tables \cup {"version.xlsx"} |-> IF n \in DOMAIN tables THEN tables[n] ELSE new[n]]
    OBVIOUS
  <2> QED
    BY <1>1, <1>4, <1>5, <2>1, TablesAdded
<1> HIDE DEF versioned
<1>7. ASSUME NEW ts, TablesOK(ts)
      PROVE  DbOK([db EXCEPT !.tables = ts]) /\ DbOK([loaded |-> TRUE, tables |-> ts])
  BY <1>7 DEF DbOK
<1>8. DbOK(_loadText(db, tx))
  BY <1>2, <1>5, <1>6, <1>7
<1> QED
  BY <1>8 DEF LoadFromText

(* So is what is read from a package, and what is dumped of a database is  *)
(* a package.                                                              *)
LEMMA PackageRead ==
  ASSUME NEW db, DbOK(db), NEW file, FileOK(file), NEW change \in BOOLEAN
  PROVE  DbOK(LoadBinStream(db, file, change).db) /\ LoadBinStream(db, file, change).change \in BOOLEAN
         /\ LoadBinStream(db, file, change).ok \in BOOLEAN
<1>1. CASE db.loaded \/ file \in {None, Torn}
  BY <1>1 DEF LoadBinStream
<1>2. CASE ~db.loaded /\ file \notin {None, Torn}
  <2> PICK tables : tables = [n \in DOMAIN db.tables \cup Read(file) |->
                                IF n \in DOMAIN db.tables THEN db.tables[n] ELSE LoadBinTable(file, n)]
    OBVIOUS
  <2> PICK new : new = [n \in Read(file) |-> LoadBinTable(file, n)]
    OBVIOUS
  <2>1. PartsOK(file.tables)
    BY <1>2 DEF FileOK
  <2>2. Read(file) \subseteq DOMAIN file.tables
    BY DEF Read
  <2>3. tables = [n \in DOMAIN db.tables \cup Read(file) |-> IF n \in DOMAIN db.tables THEN db.tables[n] ELSE new[n]]
    OBVIOUS
  <2>a. \A n \in Read(file) : TableOK(new[n])
    BY <2>1, <2>2, PartRead DEF PartsOK
  <2>b. Read(file) \subseteq ToSet(Names) /\ TablesOK(db.tables)
    BY <2>1, <2>2 DEF PartsOK, DbOK
  <2>4. TablesOK(tables)
    BY <2>3, <2>a, <2>b, TablesAdded
  <2>5. DbOK([db EXCEPT !.tables = tables]) /\ DbOK([loaded |-> TRUE, tables |-> tables])
    BY <2>4 DEF DbOK
  <2> QED
    BY <1>2, <2>5 DEF LoadBinStream
<1> QED
  BY <1>1, <1>2

LEMMA Dumped ==
  ASSUME NEW db, DbOK(db), NEW order \in Orders, NEW change \in BOOLEAN
  PROVE  FileOK(Dump(db, order, change)) /\ PartsOK(Dump(db, order, change).tables)
<1>1. \A n \in DOMAIN db.tables : PartOK(DumpTable(db.tables[n]))
  BY DEF DbOK, TablesOK, PartOK, DumpTable
<1>2. PartsOK([n \in DOMAIN db.tables |-> DumpTable(db.tables[n])])
  BY <1>1 DEF DbOK, TablesOK, PartsOK
<1> QED
  BY <1>2 DEF Dump, FileOK

(* So is what is left of one that is cut off.                              *)
LEMMA CutPackage ==
  ASSUME NEW file, PartsOK(file.tables), file \in [order : Orders, swapped : BOOLEAN, tables : {file.tables}]
  PROVE  \A left \in CutOff(file) : FileOK(left)
<1>1. ASSUME NEW n \in DOMAIN file.tables, NEW less, PartOK(less)
      PROVE  FileOK([file EXCEPT !.tables = [file.tables EXCEPT ![n] = less]])
  <2> PICK ps : ps = [file.tables EXCEPT ![n] = less]
    OBVIOUS
  <2>1. DOMAIN ps = DOMAIN file.tables /\ ps = [m \in DOMAIN ps |-> ps[m]]
        /\ \A m \in DOMAIN ps : ps[m] = IF m = n THEN less ELSE file.tables[m]
    OBVIOUS
  <2>2. PartsOK(ps)
    BY <1>1, <2>1 DEF PartsOK
  <2> QED
    BY <2>2 DEF FileOK
<1>2. ASSUME NEW n \in DOMAIN file.tables
      PROVE  FileOK([file EXCEPT !.tables[n].damaged = TRUE])
  <2>1. PartOK([file.tables[n] EXCEPT !.damaged = TRUE])
    BY DEF PartsOK, PartOK
  <2>2. [file EXCEPT !.tables[n].damaged = TRUE]
          = [file EXCEPT !.tables = [file.tables EXCEPT ![n] = [file.tables[n] EXCEPT !.damaged = TRUE]]]
    OBVIOUS
  <2> QED
    BY <1>1, <2>1, <2>2
<1>3. ASSUME NEW n \in DOMAIN file.tables, NEW k, NEW i
      PROVE  FileOK([file EXCEPT !.tables[n].cut = <<k, i>>])
  <2>1. PartOK([file.tables[n] EXCEPT !.cut = <<k, i>>])
    BY DEF PartsOK, PartOK
  <2>2. [file EXCEPT !.tables[n].cut = <<k, i>>]
          = [file EXCEPT !.tables = [file.tables EXCEPT ![n] = [file.tables[n] EXCEPT !.cut = <<k, i>>]]]
    OBVIOUS
  <2> QED
    BY <1>1, <2>1, <2>2
<1> QED
  BY <1>2, <1>3 DEF CutOff

-----------------------------------------------------------------------------
(* The invariant of the tables.  Types first.                              *)
TableTypes ==
  /\ DbOK(inst) /\ DbOK(tmp) /\ FileOK(package)
  /\ needChange \in BOOLEAN /\ halfLoaded \in BOOLEAN /\ fresh \in BOOLEAN
  /\ exporting \in {"idle", "text", "open", "dump", "load", "compare", "output"}
  /\ ops \in 0 .. MaxOps

(* An export has the databases for itself, until it has loaded.            *)
ExportInv ==
  /\ exporting # "idle" => cursor = NoCursor /\ exported = None
  /\ exporting \in {"text", "open", "dump", "load"} => inst = NewDatabase /\ ~halfLoaded
  /\ exporting = "text" => tmp = NewDatabase
  /\ exporting \in {"open", "dump", "load", "compare", "output"} => tmp.loaded

(* The flag that a load left behind is gone when it refused a good package. *)
RefusedInv ==
  /\ refused \in 0 .. 1
  /\ refused = 1 => ~needChange /\ Good(package)
  /\ exporting = "dump" => refused = 0

(* A singleton that no failed load has touched is empty, or what is read   *)
(* of the tables of a package, of which only the last can have lost some.  *)
LastOnly(parts) ==
  \A m, n \in DOMAIN parts : Comes(m, n) /\ m # n =>
    ~Spills([tables |-> parts], m) /\ parts[m].cut = <<>>

LoadedInv ==
  ~halfLoaded =>
    /\ ~inst.loaded => inst = NewDatabase
    /\ inst.loaded => /\ PartsOK(origin) /\ LastOnly(origin)
                      /\ inst.tables = [n \in DOMAIN origin |-> LoadBinTable([tables |-> origin], n)]

(* What the export has made sure of when it has written, loaded and        *)
(* compared the package.                                                   *)
Whole(file) == [loaded |-> TRUE, tables |-> [n \in DOMAIN file.tables |-> LoadBinTable(file, n)]]
FromTmp == package \notin {None, Torn}
           /\ package.tables = [n \in DOMAIN tmp.tables |-> DumpTable(tmp.tables[n])]
CheckedInv ==
  /\ exporting = "load" /\ fresh => ~needChange /\ FromTmp
  /\ exporting \in {"compare", "output"} =>
       /\ package \notin {None, Torn} /\ inst = Whole(package)
       /\ fresh => FromTmp /\ package.swapped = (package.order # Host)
  /\ exporting = "output" => Same(inst, tmp)

(* An open cursor is on a table of the singleton; what it has seen are the *)
(* ids from one of them up to where it is, and its row is that of the last. *)
Reached == IF cursor.fetched THEN cursor.at ELSE Cardinality(DOMAIN Table.rows)
Columns == IF cursor.all THEN [i \in DOMAIN Table.names |-> i]
           ELSE [i \in DOMAIN cursor.names |-> ColIndex(Table, cursor.names[i])]
Scanned == \E k \in 1 .. Reached : cursor.seen = SubSeq(Ids(Table), k, Reached)
CursorInv ==
  cursor # NoCursor =>
    /\ exporting = "idle" /\ inst.loaded
    /\ cursor \in [open : {TRUE}, all : BOOLEAN, table : DOMAIN inst.tables, names : {cursor.names},
                   fetched : BOOLEAN, at : Nat, row : {cursor.row}, seen : {cursor.seen}]
    /\ cursor.all => cursor.names = Table.names
    /\ cursor.fetched \/ cursor.seen # <<>> => Scanned
    /\ cursor.fetched =>
         /\ cursor.at \in 1 .. Cardinality(DOMAIN Table.rows)
         /\ cursor.row = [i \in DOMAIN Columns |-> IF Columns[i] = 0 THEN Empty
                                                   ELSE Table.rows[Ids(Table)[cursor.at]][Columns[i]]]

TablesInv == TableTypes /\ ExportInv /\ RefusedInv /\ LoadedInv /\ CheckedInv /\ ExportedExact /\ CursorInv

-----------------------------------------------------------------------------
(* A load into an empty database gives all of the package or fails.        *)
LEMMA GoodRead ==
  ASSUME NEW file, Good(file)
  PROVE  Read(file) = DOMAIN file.tables
BY DEF Good, Complete, Read

LEMMA WholeLoaded ==
  ASSUME NEW file, NEW change \in BOOLEAN, LoadBinStream(NewDatabase, file, change).ok
  PROVE  /\ file \notin {None, Torn} /\ file.swapped = (change \/ file.order # Host)
         /\ LastOnly(file.tables)
         /\ LoadBinStream(NewDatabase, file, change).db = Whole(file)
         /\ LoadBinStream(NewDatabase, file, change).change = FALSE
<1> DEFINE tables == [n \in DOMAIN NewDatabase.tables \cup Read(file) |->
                        IF n \in DOMAIN NewDatabase.tables THEN NewDatabase.tables[n] ELSE LoadBinTable(file, n)]
<1>1. tables = [n \in Read(file) |-> LoadBinTable(file, n)]
  BY NewDatabaseOK
<1> DEFINE swap == change \/ file.order # Host
<1>3. LoadBinStream(NewDatabase, file, change) =
        IF NewDatabase.loaded THEN [ok |-> TRUE, db |-> NewDatabase, change |-> change]
        ELSE IF file = None THEN [ok |-> FALSE, db |-> NewDatabase, change |-> change]
        ELSE IF file = Torn \/ swap # file.swapped
             THEN [ok |-> FALSE, db |-> NewDatabase, change |-> FALSE]
        ELSE IF Read(file) = DOMAIN file.tables
             THEN [ok |-> TRUE, db |-> [loaded |-> TRUE, tables |-> tables], change |-> FALSE]
             ELSE [ok |-> FALSE, db |-> [NewDatabase EXCEPT !.tables = tables], change |-> swap]
  BY DEF LoadBinStream
<1> HIDE DEF tables, swap
<1>4. ~NewDatabase.loaded
  BY NewDatabaseOK
<1>5. file \notin {None, Torn} /\ ~(swap # file.swapped) /\ Read(file) = DOMAIN file.tables
  BY <1>3, <1>4
<1>6. LoadBinStream(NewDatabase, file, change)
        = [ok |-> TRUE, db |-> [loaded |-> TRUE, tables |-> tables], change |-> FALSE]
  BY <1>3, <1>4, <1>5
<1>7. file.swapped = (change \/ file.order # Host)
  BY <1>5 DEF swap
<1>8. [loaded |-> TRUE, tables |-> tables] = Whole(file)
  BY <1>1, <1>5 DEF Whole
<1>9. LastOnly(file.tables)
  BY <1>5 DEF LastOnly, Read, Spills
<1> QED
  BY <1>5, <1>6, <1>7, <1>8, <1>9

LEMMA GoodLoads ==
  ASSUME NEW file, Good(file)
  PROVE  LoadBinStream(NewDatabase, file, FALSE).ok /\ LoadBinStream(NewDatabase, file, FALSE).db = Whole(file)
<1>1. file \notin {None, Torn} /\ file.swapped = (file.order # Host) /\ Read(file) = DOMAIN file.tables
  BY GoodRead DEF Good, Complete
<1>2. LoadBinStream(NewDatabase, file, FALSE).ok
  BY <1>1, NewDatabaseOK DEF LoadBinStream
<1> QED
  BY <1>2, WholeLoaded

(* A good package is refused only because of the flag, which is gone then. *)
LEMMA GoodRefused ==
  ASSUME NEW file, Good(file), NEW db, NEW change \in BOOLEAN, ~LoadBinStream(db, file, change).ok
  PROVE  change /\ ~LoadBinStream(db, file, change).change
<1>1. file \notin {None, Torn} /\ file.swapped = (file.order # Host) /\ Read(file) = DOMAIN file.tables
  BY GoodRead DEF Good, Complete
<1>2. ~db.loaded
  BY DEF LoadBinStream
<1>3. (change \/ file.order # Host) # file.swapped
  BY <1>1, <1>2 DEF LoadBinStream
<1> QED
  BY <1>1, <1>2, <1>3 DEF LoadBinStream

(* What can be counted comes back as it was dumped.                        *)
LEMMA SmallReturns ==
  ASSUME NEW file, FileOK(file), NEW tables,
         file \notin {None, Torn}, file.tables = [n \in DOMAIN tables |-> DumpTable(tables[n])],
         file.swapped = (file.order # Host), TablesOK(tables),
         \A n \in DOMAIN tables : Cardinality(DOMAIN tables[n].rows) < CountSize
  PROVE  Good(file) /\ Whole(file) = [loaded |-> TRUE, tables |-> tables]
<1>1. PartsOK(file.tables)
  BY DEF FileOK
<1>2. ASSUME NEW n \in DOMAIN tables
      PROVE  /\ file.tables[n].table = tables[n] /\ ~file.tables[n].damaged /\ file.tables[n].cut = <<>>
             /\ ~Spills(file, n) /\ LoadBinTable(file, n) = tables[n]
  <2>1. file.tables[n] = DumpTable(tables[n]) /\ PartOK(file.tables[n])
    BY <1>1 DEF PartsOK
  <2>2. file.tables[n].table = tables[n] /\ ~file.tables[n].damaged /\ file.tables[n].cut = <<>>
    BY <2>1 DEF DumpTable
  <2> QED
    BY <2>1, <2>2, PartRead
<1>3. Good(file)
  <2>1. DOMAIN file.tables = DOMAIN tables
    OBVIOUS
  <2> QED
    BY <1>2, <2>1 DEF Good, Complete
<1>4. [n \in DOMAIN file.tables |-> LoadBinTable(file, n)] = tables
  BY <1>2 DEF TablesOK
<1> QED
  BY <1>3, <1>4 DEF Whole

LEMMA ExportedKept ==
  ASSUME ExportedExact, UNCHANGED package, exported' \in {exported, None}
  PROVE  ExportedExact'
BY DEF ExportedExact, NewDatabase

LEMMA CursorClosed == cursor' = NoCursor => CursorInv'
BY DEF CursorInv

-----------------------------------------------------------------------------
LEMMA TablesStart == Init => TablesInv
<1> SUFFICES ASSUME Init PROVE TablesInv
  OBVIOUS
<1> USE DEF Init
<1>1. TableTypes
  <2>1. DbOK(inst) /\ DbOK(tmp)
    BY NewDatabaseOK
  <2>2. FileOK(package)
    BY DEF FileOK
  <2>3. ops \in 0 .. MaxOps
    BY CountAssumption
  <2> QED
    BY <2>1, <2>2, <2>3 DEF TableTypes
<1>2. ExportInv /\ RefusedInv
  BY DEF ExportInv, RefusedInv
<1>3. LoadedInv
  BY NewDatabaseOK DEF LoadedInv
<1>4. CheckedInv
  BY DEF CheckedInv
<1>5. ExportedExact
  BY DEF ExportedExact
<1>6. CursorInv
  BY DEF CursorInv
<1> QED
  BY <1>1, <1>2, <1>3, <1>4, <1>5, <1>6 DEF TablesInv

LEMMA OneOperation == TablesInv /\ Operation => ops' \in 0 .. MaxOps
BY CountAssumption DEF Operation, TablesInv, TableTypes

LEMMA loadDataBaseKeeps ==
  ASSUME TablesInv, loadDataBase
  PROVE  TablesInv'
<1> PICK l : l = LoadBinStream(inst, package, needChange)
  OBVIOUS
<1>1. /\ exporting = "idle" /\ cursor = NoCursor
      /\ inst' = l.db /\ needChange' = l.change /\ halfLoaded' = (halfLoaded \/ ~l.ok)
      /\ refused' = IF l.ok THEN 0 ELSE IF Good(package) THEN refused + 1 ELSE refused
      /\ origin' = IF l.ok /\ ~inst.loaded THEN package.tables ELSE origin
      /\ UNCHANGED <<ops, package, tmp, exporting, cursor, fresh, exported>>
  BY DEF loadDataBase, LoadInst, Idle
<1>2. DbOK(l.db) /\ l.change \in BOOLEAN /\ l.ok \in BOOLEAN
  BY PackageRead DEF TablesInv, TableTypes
<1>3. TableTypes'
  BY <1>1, <1>2 DEF TablesInv, TableTypes
<1>4. ExportInv'
  BY <1>1 DEF ExportInv
<1>5. RefusedInv'
  <2>1. ~l.ok /\ Good(package) => needChange /\ ~l.change
    BY GoodRefused DEF TablesInv, TableTypes
  <2> QED
    BY <1>1, <1>2, <2>1 DEF TablesInv, RefusedInv
<1>6. LoadedInv'
  <2> SUFFICES ASSUME ~halfLoaded' PROVE LoadedInv'
    BY DEF LoadedInv
  <2>1. ~halfLoaded /\ l.ok
    BY <1>1, <1>2
  <2>2. CASE inst.loaded
    <3>1. l.db = inst
      BY <2>2 DEF LoadBinStream
    <3> QED
      BY <1>1, <2>1, <2>2, <3>1 DEF TablesInv, LoadedInv
  <2>3. CASE ~inst.loaded
    <3>1. inst = NewDatabase
      BY <2>1, <2>3 DEF TablesInv, LoadedInv
    <3>2. package \notin {None, Torn} /\ l.db = Whole(package) /\ LastOnly(package.tables)
      BY <2>1, <3>1, WholeLoaded DEF TablesInv, TableTypes
    <3>3. PartsOK(package.tables)
      BY <3>2 DEF TablesInv, TableTypes, FileOK
    <3>4. origin' = package.tables
      BY <1>1, <2>1, <2>3
    <3>5. inst'.loaded /\ inst'.tables = [n \in DOMAIN package.tables |-> LoadBinTable(package, n)]
      BY <1>1, <3>2 DEF Whole
    <3>6. \A n \in DOMAIN package.tables : LoadBinTable(package, n) = LoadBinTable([tables |-> package.tables], n)
      BY DEF LoadBinTable
    <3> QED
      BY <3>2, <3>3, <3>4, <3>5, <3>6 DEF LoadedInv
  <2> QED
    BY <2>2, <2>3
<1>7. CheckedInv' /\ ExportedExact' /\ CursorInv'
  BY <1>1, ExportedKept, CursorClosed DEF TablesInv, CheckedInv
<1> QED
  BY <1>3, <1>4, <1>5, <1>6, <1>7 DEF TablesInv

LEMMA destroy_InstantKeeps ==
  ASSUME TablesInv, destroy_Instant
  PROVE  TablesInv'
<1>1. /\ exporting = "idle" /\ cursor = NoCursor
      /\ inst' = NewDatabase /\ halfLoaded' = FALSE
      /\ UNCHANGED <<needChange, package, tmp, exporting, cursor, ops, refused, fresh, exported>>
  BY DEF destroy_Instant, Idle
<1>2. TableTypes'
  BY <1>1, NewDatabaseOK DEF TablesInv, TableTypes
<1>3. ExportInv' /\ RefusedInv' /\ LoadedInv' /\ CheckedInv'
  BY <1>1, NewDatabaseOK DEF TablesInv, ExportInv, RefusedInv, LoadedInv, CheckedInv
<1>4. ExportedExact' /\ CursorInv'
  BY <1>1, ExportedKept, CursorClosed DEF TablesInv
<1> QED
  BY <1>2, <1>3, <1>4 DEF TablesInv

LEMMA ChangePackageKeeps ==
  ASSUME TablesInv, ChangePackage
  PROVE  TablesInv'
<1>0. ops' \in 0 .. MaxOps
  BY OneOperation DEF ChangePackage
<1>1. /\ exporting = "idle" /\ cursor = NoCursor
      /\ refused' = 0 /\ exported' = None
      /\ UNCHANGED <<needChange, inst, tmp, exporting, cursor, halfLoaded, origin, fresh>>
  BY DEF ChangePackage, Idle
<1>2. FileOK(package')
  <2>1. ASSUME NEW tx \in Texts, NEW order \in Orders, NEW file,
               file = [Dump(_loadText(NewDatabase, tx), order, FALSE) EXCEPT !.swapped = (order # Host)]
        PROVE  FileOK(file) /\ \A left \in CutOff(file) : FileOK(left)
    <3>0. PICK f : f = Dump(_loadText(NewDatabase, tx), order, FALSE)
      OBVIOUS
    <3>1. PartsOK(f.tables)
      BY <3>0, NewDatabaseOK, TextRead, Dumped
    <3>a. PICK b, ts : f = [order |-> order, swapped |-> b, tables |-> ts]
      BY <3>0 DEF Dump
    <3> PICK c \in BOOLEAN : c = (order # Host)
      OBVIOUS
    <3>b. file = [f EXCEPT !.swapped = c]
      BY <2>1, <3>0
    <3>c. f.tables = ts
      BY <3>a
    <3>2. file = [order |-> order, swapped |-> c, tables |-> ts]
      BY <3>a, <3>b
    <3>3. file \in [order : Orders, swapped : BOOLEAN, tables : {file.tables}] /\ file.tables = f.tables
      BY <3>2, <3>c
    <3> QED
      BY <3>1, <3>3, CutPackage DEF FileOK
  <2>2. ASSUME NEW tx \in Texts, NEW order \in Orders, NEW file,
               file = [Dump(_loadText(NewDatabase, tx), order, FALSE) EXCEPT !.swapped = (order # Host)],
               package' \in {file} \cup CutOff(file)
        PROVE  FileOK(package')
    <3>1. FileOK(file) /\ \A left \in CutOff(file) : FileOK(left)
      BY <2>1, <2>2
    <3> QED
      BY ZenonT(60), <2>2, <3>1
  <2>3. ASSUME Complete(package), package' \in CutOff(package)
        PROVE  FileOK(package')
    BY <2>3, CutPackage DEF TablesInv, TableTypes, FileOK, Complete
  <2> QED
    BY <2>2, <2>3 DEF ChangePackage
<1>3. TableTypes'
  BY <1>0, <1>1, <1>2 DEF TablesInv, TableTypes
<1>4. ExportInv' /\ RefusedInv' /\ LoadedInv' /\ CheckedInv'
  BY <1>1 DEF TablesInv, ExportInv, RefusedInv, LoadedInv, CheckedInv
<1>5. ExportedExact' /\ CursorInv'
  BY <1>1, CursorClosed DEF ExportedExact
<1> QED
  BY <1>3, <1>4, <1>5 DEF TablesInv

LEMMA expExcelKeeps ==
  ASSUME TablesInv, expExcel
  PROVE  TablesInv'
<1>1. /\ cursor = NoCursor /\ inst' = NewDatabase /\ tmp' = NewDatabase
      /\ halfLoaded' = FALSE /\ exporting' \in {"idle", "text"} /\ exported' = None
      /\ UNCHANGED <<needChange, package, cursor, refused, fresh>>
  BY DEF expExcel, Idle
<1>2. ops' \in 0 .. MaxOps
  BY OneOperation DEF expExcel
<1>3. TableTypes'
  BY <1>1, <1>2, NewDatabaseOK DEF TablesInv, TableTypes
<1>4. ExportInv' /\ RefusedInv' /\ LoadedInv' /\ CheckedInv'
  BY <1>1, NewDatabaseOK DEF TablesInv, ExportInv, RefusedInv, LoadedInv, CheckedInv
<1>5. ExportedExact' /\ CursorInv'
  BY <1>1, ExportedKept, CursorClosed DEF TablesInv
<1> QED
  BY <1>3, <1>4, <1>5 DEF TablesInv

(* An export that stops.                                                   *)
LEMMA FailKeeps ==
  ASSUME TablesInv, Fail, needChange' \in BOOLEAN, FileOK(package'), RefusedInv', ExportedExact',
         cursor = NoCursor, UNCHANGED <<cursor, ops>>
  PROVE  TablesInv'
<1>1. exporting' = "idle" /\ inst' = NewDatabase /\ tmp' = NewDatabase /\ halfLoaded' = FALSE
      /\ fresh' = FALSE
  BY DEF Fail
<1>2. TableTypes'
  BY <1>1, NewDatabaseOK DEF TablesInv, TableTypes
<1>3. cursor' = NoCursor
  OBVIOUS
<1>4. ExportInv' /\ LoadedInv' /\ CheckedInv'
  BY <1>1, NewDatabaseOK DEF ExportInv, LoadedInv, CheckedInv
<1>5. CursorInv'
  BY <1>3, CursorClosed
<1> QED
  BY <1>2, <1>4, <1>5 DEF TablesInv

LEMMA ExportTextKeeps ==
  ASSUME TablesInv, ExportText
  PROVE  TablesInv'
<1>b. PICK tx \in Texts :
        LET db == LoadFromText(tmp, tx) IN
        \/ db.loaded /\ exporting' = "open" /\ tmp' = db /\ UNCHANGED <<inst, halfLoaded, origin, fresh>>
        \/ Fail
  BY DEF ExportText
<1> PICK db : db = LoadFromText(tmp, tx)
  OBVIOUS
<1>0. /\ db = LoadFromText(tmp, tx)
      /\ \/ db.loaded /\ exporting' = "open" /\ tmp' = db /\ UNCHANGED <<inst, halfLoaded, origin, fresh>>
         \/ Fail
  BY <1>b
<1>1. /\ exporting = "text" /\ needChange' \in {needChange, FALSE} /\ cursor = NoCursor
      /\ UNCHANGED <<package, cursor, ops, refused, exported>>
  BY DEF ExportText, TablesInv, ExportInv
<1>a. needChange' \in BOOLEAN
  BY <1>1 DEF TablesInv, TableTypes
<1>2. DbOK(db)
  BY <1>0, TextRead DEF TablesInv, TableTypes
<1>3. RefusedInv /\ exporting' # "dump" => RefusedInv'
  BY <1>1 DEF RefusedInv
<1>4. ExportedExact'
  BY <1>1, ExportedKept DEF TablesInv
<1>5. CASE Fail
  <2>1. RefusedInv'
    BY <1>3, <1>5 DEF Fail, TablesInv
  <2> QED
    BY <1>1, <1>a, <1>4, <1>5, <2>1, FailKeeps DEF TablesInv, TableTypes
<1>6. CASE db.loaded /\ exporting' = "open" /\ tmp' = db /\ UNCHANGED <<inst, halfLoaded, origin, fresh>>
  <2>1. TableTypes'
    BY <1>1, <1>a, <1>2, <1>6 DEF TablesInv, TableTypes
  <2>2. ExportInv' /\ LoadedInv' /\ CheckedInv'
    BY <1>1, <1>6 DEF TablesInv, ExportInv, LoadedInv, CheckedInv
  <2>3. CursorInv'
    BY <1>1, CursorClosed DEF TablesInv, ExportInv
  <2> QED
    BY <1>3, <1>4, <1>6, <2>1, <2>2, <2>3 DEF TablesInv
<1> QED
  BY <1>0, <1>5, <1>6

LEMMA ExportOpenKeeps ==
  ASSUME TablesInv, ExportOpen
  PROVE  TablesInv'
<1>1. /\ exporting = "open"
      /\ \/ exporting' = "dump" /\ package' = Torn /\ fresh' = TRUE /\ refused' = 0
         \/ exporting' = "load" /\ fresh' = FALSE /\ UNCHANGED <<package, refused>>
      /\ UNCHANGED <<needChange, inst, tmp, cursor, ops, halfLoaded, origin, exported>>
  BY DEF ExportOpen
<1>2. TableTypes'
  BY <1>1 DEF TablesInv, TableTypes, FileOK
<1>3. ExportInv' /\ RefusedInv' /\ LoadedInv' /\ CheckedInv'
  BY <1>1 DEF TablesInv, ExportInv, RefusedInv, LoadedInv, CheckedInv
<1>4. exported' = None /\ cursor' = NoCursor
  BY <1>1 DEF TablesInv, ExportInv
<1>5. ExportedExact' /\ CursorInv'
  BY <1>4, CursorClosed DEF ExportedExact
<1> QED
  BY <1>2, <1>3, <1>5 DEF TablesInv

LEMMA ExportDumpKeeps ==
  ASSUME TablesInv, ExportDump
  PROVE  TablesInv'
<1>a. PICK order \in Orders :
        LET file == Dump(tmp, order, needChange) IN
        \/ package' = file /\ UNCHANGED fresh
        \/ package' \in {Torn} \cup CutOff(file) /\ fresh' = FALSE
  BY DEF ExportDump
<1> PICK file : file = Dump(tmp, order, needChange)
  OBVIOUS
<1>0. /\ file = Dump(tmp, order, needChange)
      /\ \/ package' = file /\ UNCHANGED fresh
         \/ package' \in {Torn} \cup CutOff(file) /\ fresh' = FALSE
  BY <1>a
<1>1. /\ exporting = "dump" /\ needChange' = FALSE /\ exporting' = "load"
      /\ UNCHANGED <<inst, tmp, cursor, ops, refused, halfLoaded, origin, exported>>
  BY DEF ExportDump
<1>2. FileOK(package') /\ fresh' \in BOOLEAN
  <2>1. FileOK(file) /\ PartsOK(file.tables)
    BY <1>0, Dumped DEF TablesInv, TableTypes
  <2>2. file \notin {None, Torn}
    BY <1>0 DEF Dump, None, Torn
  <2>3. \A left \in CutOff(file) : FileOK(left)
    BY <2>1, <2>2, CutPackage DEF FileOK
  <2>4. FileOK(Torn)
    BY DEF FileOK
  <2> QED
    BY ZenonT(60), <1>0, <2>1, <2>3, <2>4 DEF TablesInv, TableTypes
<1>3. TableTypes'
  BY <1>1, <1>2 DEF TablesInv, TableTypes
<1>4. ExportInv' /\ RefusedInv' /\ LoadedInv'
  BY <1>1 DEF TablesInv, ExportInv, RefusedInv, LoadedInv
<1>5. fresh' => package' \notin {None, Torn}
                /\ package'.tables = [n \in DOMAIN tmp.tables |-> DumpTable(tmp.tables[n])]
  BY <1>0 DEF Dump, None, Torn
<1>6. CheckedInv'
  BY <1>1, <1>5 DEF CheckedInv, FromTmp
<1>7. exported' = None /\ cursor' = NoCursor
  BY <1>1 DEF TablesInv, ExportInv
<1>8. ExportedExact' /\ CursorInv'
  BY <1>7, CursorClosed DEF ExportedExact
<1> QED
  BY <1>3, <1>4, <1>6, <1>8 DEF TablesInv

LEMMA ExportLoadKeeps ==
  ASSUME TablesInv, ExportLoad
  PROVE  TablesInv'
<1>0. PICK l : l = LoadBinStream(inst, package, needChange)
  OBVIOUS
<1>1. /\ exporting = "load" /\ needChange' = l.change
      /\ \/ l.ok /\ exporting' = "compare" /\ inst' = l.db /\ refused' = 0
            /\ origin' = package.tables /\ UNCHANGED <<tmp, halfLoaded, fresh>>
         \/ ~l.ok /\ Fail
            /\ refused' = IF Good(package) THEN refused + 1 ELSE refused
      /\ UNCHANGED <<package, cursor, ops, exported>>
  BY <1>0 DEF ExportLoad
<1>2. DbOK(l.db) /\ l.change \in BOOLEAN /\ l.ok \in BOOLEAN
  BY <1>0, PackageRead DEF TablesInv, TableTypes
<1>3. exported' = None /\ cursor = NoCursor /\ cursor' = NoCursor /\ inst = NewDatabase /\ ~halfLoaded
  BY <1>1 DEF TablesInv, ExportInv
<1>4. ExportedExact' /\ CursorInv'
  BY <1>3, CursorClosed DEF ExportedExact
<1>5. CASE ~l.ok
  <2>1. Good(package) => needChange /\ ~l.change
    BY <1>0, <1>5, GoodRefused DEF TablesInv, TableTypes
  <2>2. Fail /\ RefusedInv'
    BY <1>1, <1>5, <2>1 DEF TablesInv, RefusedInv, Fail
  <2> QED
    BY <1>1, <1>2, <1>3, <1>4, <2>2, FailKeeps DEF TablesInv, TableTypes
<1>6. CASE l.ok
  <2>1. package \notin {None, Torn} /\ package.swapped = (needChange \/ package.order # Host)
        /\ l.db = Whole(package) /\ ~l.change /\ LastOnly(package.tables)
    BY <1>0, <1>3, <1>6, WholeLoaded DEF TablesInv, TableTypes
  <2>2. exporting' = "compare" /\ inst' = l.db /\ refused' = 0 /\ origin' = package.tables
        /\ UNCHANGED <<tmp, halfLoaded, fresh>>
    BY <1>1, <1>6
  <2>3. TableTypes'
    BY <1>1, <1>2, <2>2 DEF TablesInv, TableTypes
  <2>4. ExportInv' /\ RefusedInv'
    BY <1>1, <1>3, <2>2 DEF TablesInv, ExportInv, RefusedInv
  <2>5. LoadedInv'
    <3>1. PartsOK(package.tables)
      BY <2>1 DEF TablesInv, TableTypes, FileOK
    <3>2. inst'.loaded /\ inst'.tables = [n \in DOMAIN package.tables |-> LoadBinTable(package, n)]
      BY <2>1, <2>2 DEF Whole
    <3>3. \A n \in DOMAIN package.tables : LoadBinTable(package, n) = LoadBinTable([tables |-> package.tables], n)
      BY DEF LoadBinTable
    <3> QED
      BY <2>1, <2>2, <3>1, <3>2, <3>3 DEF LoadedInv
  <2>6. CheckedInv'
    BY <1>1, <2>1, <2>2 DEF TablesInv, CheckedInv, FromTmp
  <2> QED
    BY <1>4, <2>3, <2>4, <2>5, <2>6 DEF TablesInv
<1> QED
  BY <1>2, <1>5, <1>6

LEMMA ExportCompareKeeps ==
  ASSUME TablesInv, ExportCompare
  PROVE  TablesInv'
<1>1. /\ exporting = "compare"
      /\ \/ Same(inst, tmp) /\ exporting' = "output" /\ UNCHANGED <<inst, tmp, halfLoaded, origin, fresh>>
         \/ Fail
      /\ UNCHANGED <<needChange, package, cursor, ops, refused, exported>>
  BY DEF ExportCompare
<1>2. exported' = None /\ cursor = NoCursor /\ cursor' = NoCursor
  BY <1>1 DEF TablesInv, ExportInv
<1>3. ExportedExact' /\ CursorInv'
  BY <1>2, CursorClosed DEF ExportedExact
<1>4. CASE Fail
  <2>1. RefusedInv'
    BY <1>1, <1>4 DEF Fail, TablesInv, RefusedInv
  <2> QED
    BY <1>1, <1>2, <1>3, <1>4, <2>1, FailKeeps DEF TablesInv, TableTypes
<1>5. CASE Same(inst, tmp) /\ exporting' = "output" /\ UNCHANGED <<inst, tmp, halfLoaded, origin, fresh>>
  <2>1. TableTypes'
    BY <1>1, <1>5 DEF TablesInv, TableTypes
  <2>2. ExportInv' /\ RefusedInv' /\ LoadedInv'
    BY <1>1, <1>5 DEF TablesInv, ExportInv, RefusedInv, LoadedInv
  <2>3. CheckedInv'
    BY <1>1, <1>5 DEF TablesInv, CheckedInv, FromTmp
  <2> QED
    BY <1>3, <2>1, <2>2, <2>3 DEF TablesInv
<1> QED
  BY <1>1, <1>4, <1>5

(* An export that returns true has checked what it left.                   *)
LEMMA ExportOutputKeeps ==
  ASSUME TablesInv, ExportOutput
  PROVE  TablesInv'
<1>1. /\ exporting = "output" /\ Fail /\ cursor = NoCursor
      /\ exported' \in {None, [fresh |-> fresh, tables |-> tmp.tables]}
      /\ UNCHANGED <<needChange, package, cursor, ops, refused>>
  BY DEF ExportOutput, TablesInv, ExportInv
<1>2. package \notin {None, Torn} /\ FileOK(package) /\ inst = Whole(package) /\ Same(inst, tmp) /\ DbOK(tmp)
      /\ (fresh => FromTmp /\ package.swapped = (package.order # Host))
  BY <1>1 DEF TablesInv, TableTypes, CheckedInv
<1>3. Good(package) => LoadBinStream(NewDatabase, package, FALSE).ok
                       /\ LoadBinStream(NewDatabase, package, FALSE).db = inst
  BY <1>2, GoodLoads
<1>4. Same(inst, [loaded |-> TRUE, tables |-> tmp.tables])
  BY <1>2 DEF Same
<1>5. ASSUME fresh, \A n \in DOMAIN tmp.tables : Cardinality(DOMAIN tmp.tables[n].rows) < CountSize
      PROVE  LoadBinStream(NewDatabase, package, FALSE).ok
             /\ LoadBinStream(NewDatabase, package, FALSE).db.tables = tmp.tables
  <2>1. package.tables = [n \in DOMAIN tmp.tables |-> DumpTable(tmp.tables[n])]
        /\ package.swapped = (package.order # Host)
    BY <1>2, <1>5 DEF FromTmp
  <2>2. Good(package) /\ Whole(package) = [loaded |-> TRUE, tables |-> tmp.tables]
    BY <1>2, <1>5, <2>1, SmallReturns DEF DbOK
  <2>3. inst = [loaded |-> TRUE, tables |-> tmp.tables]
    BY <1>2, <2>2
  <2>4. inst.tables = tmp.tables
    BY <2>3
  <2> QED
    BY <1>3, <2>2, <2>4
<1>6. ExportedExact'
  <2>1. CASE exported' = None
    BY <2>1 DEF ExportedExact
  <2>2. CASE exported' = [fresh |-> fresh, tables |-> tmp.tables]
    BY <1>1, <1>3, <1>4, <1>5, <2>2 DEF ExportedExact, NewDatabase
  <2> QED
    BY <1>1, <2>1, <2>2
<1>7. RefusedInv'
  BY <1>1 DEF TablesInv, RefusedInv, Fail
<1> QED
  BY <1>1, <1>6, <1>7, FailKeeps DEF TablesInv, TableTypes

LEMMA TableCrashKeeps ==
  ASSUME TablesInv, Crash
  PROVE  TablesInv'
<1>1. /\ cursor = NoCursor /\ Fail /\ needChange' = FALSE
      /\ \/ UNCHANGED package
         \/ exporting = "dump" /\ \E order \in Orders : package' \in CutOff(Dump(tmp, order, needChange))
      /\ UNCHANGED <<cursor, ops, refused, exported>>
  BY DEF Crash
<1>2. FileOK(package')
  <2>1. ASSUME NEW order \in Orders
        PROVE  \A left \in CutOff(Dump(tmp, order, needChange)) : FileOK(left)
    <3>1. PICK f : f = Dump(tmp, order, needChange)
      OBVIOUS
    <3>2. PartsOK(f.tables) /\ FileOK(f)
      BY <3>1, Dumped DEF TablesInv, TableTypes
    <3>3. f \notin {None, Torn}
      BY <3>1 DEF Dump, None, Torn
    <3>4. f \in [order : Orders, swapped : BOOLEAN, tables : {f.tables}]
      BY <3>2, <3>3 DEF FileOK
    <3> QED
      BY <3>1, <3>2, <3>4, CutPackage
  <2> QED
    BY ZenonT(60), <1>1, <2>1 DEF TablesInv, TableTypes
<1>3. RefusedInv'
  BY <1>1 DEF TablesInv, RefusedInv, Fail
<1>4. ExportedExact'
  <2>1. CASE UNCHANGED package
    BY <1>1, <2>1, ExportedKept DEF TablesInv
  <2>2. CASE exporting = "dump"
    BY <1>1, <2>2 DEF TablesInv, ExportInv, ExportedExact
  <2> QED
    BY <1>1, <2>1, <2>2
<1> QED
  BY <1>1, <1>2, <1>3, <1>4, FailKeeps

-----------------------------------------------------------------------------
(* Nothing but a cursor moves.                                             *)
LEMMA CursorMoves ==
  ASSUME TablesInv, exporting = "idle", CursorInv',
         UNCHANGED <<needChange, package, inst, tmp, exporting, ops, refused, halfLoaded, origin, fresh, exported>>
  PROVE  TablesInv'
<1>1. TableTypes'
  BY DEF TablesInv, TableTypes
<1>2. ExportInv' /\ RefusedInv' /\ LoadedInv' /\ CheckedInv'
  BY DEF TablesInv, ExportInv, RefusedInv, LoadedInv, CheckedInv
<1>3. ExportedExact'
  BY ExportedKept DEF TablesInv
<1> QED
  BY <1>1, <1>2, <1>3 DEF TablesInv

LEMMA TableFacts ==
  ASSUME TablesInv, cursor # NoCursor
  PROVE  /\ exporting = "idle" /\ inst.loaded /\ cursor.table \in DOMAIN inst.tables
         /\ TableOK(Table) /\ Cardinality(DOMAIN Table.rows) \in Nat
         /\ Ids(Table) \in [1 .. Cardinality(DOMAIN Table.rows) -> DOMAIN Table.rows]
         /\ Ids(Table) \in Seq(Int) /\ Len(Ids(Table)) = Cardinality(DOMAIN Table.rows)
         /\ DOMAIN Ids(Table) = 1 .. Cardinality(DOMAIN Table.rows)
         /\ \A i, j \in DOMAIN Ids(Table) : Ids(Table)[i] = Ids(Table)[j] => i = j
<1>1. exporting = "idle" /\ inst.loaded /\ cursor.table \in DOMAIN inst.tables
  BY DEF TablesInv, CursorInv
<1>2. TableOK(Table)
  BY <1>1 DEF TablesInv, TableTypes, DbOK, TablesOK, Table
<1>3. IsFiniteSet(DOMAIN Table.rows) /\ DOMAIN Table.rows \subseteq Int
  BY <1>2 DEF TableOK
<1> PICK n, ids : n = Cardinality(DOMAIN Table.rows) /\ ids = Ids(Table)
  OBVIOUS
<1>4. n \in Nat /\ ids \in [1 .. n -> DOMAIN Table.rows] /\ \A i, j \in 1 .. n : ids[i] = ids[j] => i = j
  BY <1>3, IdsSorted
<1>5. ids \in [1 .. n -> Int]
  BY <1>3, <1>4
<1>6. ids \in Seq(Int) /\ Len(ids) = n
  BY <1>4, <1>5, SeqDef, LenProperties
<1> QED
  BY <1>1, <1>2, <1>4, <1>6

LEMMA OneFurther ==
  ASSUME NEW U, NEW q \in Seq(U), NEW k \in 1 .. Len(q), NEW n \in k - 1 .. Len(q) - 1
  PROVE  Append(SubSeq(q, k, n), q[n + 1]) = SubSeq(q, k, n + 1)
<1>1. /\ Len(q) \in Nat /\ k \in Int /\ n \in Int /\ n + 1 \in Int
      /\ \A i \in k .. n + 1 : q[i] \in U
  OBVIOUS
<1>2. /\ SubSeq(q, k, n) \in Seq(U) /\ Len(SubSeq(q, k, n)) = n - k + 1
      /\ \A i \in 1 .. n - k + 1 : SubSeq(q, k, n)[i] = q[k + i - 1]
  <2>1. \A i \in k .. n : q[i] \in U
    BY <1>1
  <2>2. /\ SubSeq(q, k, n) \in Seq(U)
        /\ Len(SubSeq(q, k, n)) = IF k <= n THEN n - k + 1 ELSE 0
        /\ \A i \in 1 .. n - k + 1 : SubSeq(q, k, n)[i] = q[k + i - 1]
    BY <1>1, <2>1, SubSeqProperties
  <2> QED
    BY <1>1, <2>2
<1>3. /\ SubSeq(q, k, n + 1) \in Seq(U) /\ Len(SubSeq(q, k, n + 1)) = n - k + 2
      /\ \A i \in 1 .. n - k + 2 : SubSeq(q, k, n + 1)[i] = q[k + i - 1]
  <2>1. /\ SubSeq(q, k, n + 1) \in Seq(U)
        /\ Len(SubSeq(q, k, n + 1)) = IF k <= n + 1 THEN n + 1 - k + 1 ELSE 0
        /\ \A i \in 1 .. n + 1 - k + 1 : SubSeq(q, k, n + 1)[i] = q[k + i - 1]
    BY <1>1, SubSeqProperties
  <2> QED
    BY SMTT(30), <1>1, <2>1
<1> PICK a, b : a = SubSeq(q, k, n) /\ b = SubSeq(q, k, n + 1)
  OBVIOUS
<1>4. q[n + 1] \in U
  BY <1>1
<1>5. Append(a, q[n + 1]) \in Seq(U) /\ Len(Append(a, q[n + 1])) = n - k + 2
  BY SMTT(30), <1>1, <1>2, <1>4
<1>6. ASSUME NEW i \in 1 .. n - k + 2
      PROVE  Append(a, q[n + 1])[i] = b[i]
  <2>0. i \in Int /\ (i <= n - k + 1 \/ i = n - k + 2)
    BY <1>1
  <2>1. CASE i <= n - k + 1
    BY <1>1, <1>2, <1>3, <2>1
  <2>2. CASE i = n - k + 2
    <3>1. Append(a, q[n + 1])[i] = q[n + 1] /\ k + i - 1 = n + 1
      BY <1>1, <1>2, <2>2
    <3> QED
      BY <1>3, <3>1
  <2> QED
    BY <2>0, <2>1, <2>2
<1> QED
  BY <1>3, <1>5, <1>6, SeqEqual

(* A cursor that goes to a row, or behind the last.                        *)
LEMMA FetchedKeeps ==
  ASSUME TablesInv, cursor # NoCursor, NEW at \in Nat, NEW seen, Fetched(at, seen), CursorOnly,
         at \in DOMAIN Ids(Table) =>
           \E k \in 1 .. at : Append(seen, Ids(Table)[at]) = SubSeq(Ids(Table), k, at),
         at \notin DOMAIN Ids(Table) /\ seen # <<>> =>
           \E k \in 1 .. Len(Ids(Table)) : seen = SubSeq(Ids(Table), k, Len(Ids(Table)))
  PROVE  TablesInv'
<1> PICK n, ids, cols : n = Cardinality(DOMAIN Table.rows) /\ ids = Ids(Table) /\ cols = Columns
  OBVIOUS
<1>1. /\ n \in Nat /\ Len(ids) = n /\ DOMAIN ids = 1 .. n /\ exporting = "idle" /\ inst.loaded
      /\ cursor.table \in DOMAIN inst.tables
  BY TableFacts
<1>2. cursor \in [open : {TRUE}, all : BOOLEAN, table : DOMAIN inst.tables, names : {cursor.names},
                  fetched : BOOLEAN, at : Nat, row : {cursor.row}, seen : {cursor.seen}]
      /\ (cursor.all => cursor.names = Table.names)
  BY DEF TablesInv, CursorInv
<1>3. UNCHANGED <<needChange, package, inst, tmp, exporting, ops, refused, halfLoaded, origin, fresh, exported>>
  BY DEF CursorOnly
<1>4. PICK f, a, r, s :
        /\ f = IF at \in 1 .. n THEN TRUE ELSE FALSE
        /\ a = IF at \in 1 .. n THEN at ELSE n + 1
        /\ r = IF at \in 1 .. n THEN [i \in DOMAIN cols |-> IF cols[i] = 0 THEN Empty ELSE Table.rows[ids[at]][cols[i]]]
               ELSE <<>>
        /\ s = IF at \in 1 .. n THEN Append(seen, ids[at]) ELSE seen
  OBVIOUS
<1>a. cursor' = [cursor EXCEPT !.fetched = f, !.at = a, !.row = r, !.seen = s]
  <2>1. CASE at \notin DOMAIN ids
    <3>1. cursor' = [cursor EXCEPT !.fetched = FALSE, !.at = Len(ids) + 1, !.row = <<>>, !.seen = seen]
      BY <2>1 DEF Fetched
    <3>2. f = FALSE /\ a = Len(ids) + 1 /\ r = <<>> /\ s = seen
      BY <1>1, <1>4, <2>1
    <3> QED
      BY <3>1, <3>2
  <2>2. CASE at \in DOMAIN ids
    <3>1. cursor' = [cursor EXCEPT !.fetched = TRUE, !.at = at, !.seen = Append(seen, ids[at]),
                       !.row = [i \in DOMAIN cols |-> IF cols[i] = 0 THEN Empty
                                                      ELSE Table.rows[ids[at]][cols[i]]]]
      BY <2>2 DEF Fetched, Columns
    <3>2. f = TRUE /\ a = at /\ s = Append(seen, ids[at])
          /\ r = [i \in DOMAIN cols |-> IF cols[i] = 0 THEN Empty ELSE Table.rows[ids[at]][cols[i]]]
      BY <1>1, <1>4, <2>2
    <3> QED
      BY <3>1, <3>2
  <2> QED
    BY <2>1, <2>2
<1>b. f \in BOOLEAN /\ a \in Nat
  BY <1>1, <1>4
<1>5. /\ cursor'.open = TRUE /\ cursor'.all = cursor.all /\ cursor'.table = cursor.table
      /\ cursor'.names = cursor.names /\ cursor'.fetched = f /\ cursor'.at = a /\ cursor'.row = r /\ cursor'.seen = s
      /\ cursor' \in [open : {TRUE}, all : BOOLEAN, table : DOMAIN inst.tables, names : {cursor'.names},
                      fetched : BOOLEAN, at : Nat, row : {cursor'.row}, seen : {cursor'.seen}]
  BY <1>2, <1>a, <1>b
<1>c. Table' = Table
  BY <1>3, <1>5 DEF Table
<1>6. Table' = Table /\ Columns' = Columns
  BY <1>5, <1>c DEF Columns
<1>7. f \/ s # <<>> => Scanned'
  <2>1. CASE at \in 1 .. n
    BY <1>1, <1>4, <1>5, <1>6, <2>1 DEF Scanned, Reached
  <2>2. CASE at \notin 1 .. n
    BY <1>1, <1>4, <1>5, <1>6, <2>2 DEF Scanned, Reached
  <2> QED
    BY <2>1, <2>2
<1>8. CursorInv'
  <2>1. exporting' = "idle" /\ inst'.loaded /\ DOMAIN inst'.tables = DOMAIN inst.tables
    BY <1>1, <1>3
  <2>2. cursor'.all => cursor'.names = Table'.names
    BY <1>2, <1>5, <1>c
  <2>3. cursor'.fetched \/ cursor'.seen # <<>> => Scanned'
    BY <1>5, <1>7
  <2>4. cursor'.fetched => at \in 1 .. n
    BY <1>4, <1>5
  <2>5. cursor'.fetched =>
         /\ cursor'.at \in 1 .. Cardinality(DOMAIN Table'.rows)
         /\ cursor'.row = [i \in DOMAIN Columns' |-> IF Columns'[i] = 0 THEN Empty
                                                    ELSE Table'.rows[Ids(Table')[cursor'.at]][Columns'[i]]]
    <3> SUFFICES ASSUME cursor'.fetched
                 PROVE  /\ cursor'.at \in 1 .. Cardinality(DOMAIN Table'.rows)
                        /\ cursor'.row = [i \in DOMAIN Columns' |->
                             IF Columns'[i] = 0 THEN Empty
                             ELSE Table'.rows[Ids(Table')[cursor'.at]][Columns'[i]]]
      OBVIOUS
    <3>1. cursor'.at = at /\ at \in 1 .. n
      BY <1>4, <1>5, <2>4
    <3>2. cursor'.row = [i \in DOMAIN cols |-> IF cols[i] = 0 THEN Empty ELSE Table.rows[ids[at]][cols[i]]]
      BY <1>4, <1>5, <3>1
    <3>3. Table' = Table /\ Columns' = cols /\ Ids(Table') = ids /\ n = Cardinality(DOMAIN Table'.rows)
      BY <1>6
    <3> QED
      BY <3>1, <3>2, <3>3
  <2> QED
    BY <1>5, <2>1, <2>2, <2>3, <2>5 DEF CursorInv
<1> QED
  BY <1>1, <1>3, <1>8, CursorMoves

LEMMA CursorCallKeeps ==
  ASSUME TablesInv, FetchFirst \/ FetchNext \/ Fetch
  PROVE  TablesInv'
<1> PICK ids : ids = Ids(Table)
  OBVIOUS
<1>1. cursor # NoCursor
  <2>1. cursor.open
    BY DEF FetchFirst, FetchNext, Fetch
  <2> QED
    BY <2>1 DEF NoCursor
<1>2. /\ ids \in Seq(Int) /\ DOMAIN ids = 1 .. Len(ids) /\ Len(ids) \in Nat
      /\ Cardinality(DOMAIN Table.rows) = Len(ids)
  BY <1>1, TableFacts
<1>3. CASE FetchFirst
  <2>1. 1 \in DOMAIN ids => Append(<<>>, ids[1]) = SubSeq(ids, 1, 1)
    <3> SUFFICES ASSUME 1 \in DOMAIN ids PROVE Append(<<>>, ids[1]) = SubSeq(ids, 1, 1)
      OBVIOUS
    <3>1. Append(SubSeq(ids, 1, 0), ids[0 + 1]) = SubSeq(ids, 1, 0 + 1)
      BY <1>2, OneFurther
    <3>2. SubSeq(ids, 1, 0) = <<>>
      BY SubSeqEmpty
    <3> QED
      BY <3>1, <3>2
  <2>2. 1 \in DOMAIN ids => \E k \in 1 .. 1 : Append(<<>>, ids[1]) = SubSeq(ids, k, 1)
    BY <2>1
  <2> QED
    BY <1>1, <1>3, <2>2, FetchedKeeps DEF FetchFirst
<1>4. CASE FetchNext
  <2>1. cursor.fetched /\ cursor.at \in 1 .. Len(ids) /\ Scanned /\ Reached = cursor.at
    BY <1>1, <1>2, <1>4 DEF FetchNext, TablesInv, CursorInv, Reached
  <2>2. PICK k \in 1 .. cursor.at : cursor.seen = SubSeq(ids, k, cursor.at)
    BY <2>1 DEF Scanned
  <2>3. cursor.at + 1 \in DOMAIN ids =>
          Append(cursor.seen, ids[cursor.at + 1]) = SubSeq(ids, k, cursor.at + 1)
    <3> SUFFICES ASSUME cursor.at + 1 \in DOMAIN ids
                 PROVE  Append(SubSeq(ids, k, cursor.at), ids[cursor.at + 1]) = SubSeq(ids, k, cursor.at + 1)
      BY <2>2
    <3>1. k \in 1 .. Len(ids) /\ cursor.at \in k - 1 .. Len(ids) - 1
      BY <1>2, <2>1
    <3> QED
      BY <1>2, <3>1, OneFurther
  <2>4. cursor.at + 1 \notin DOMAIN ids => cursor.at = Len(ids)
    BY <1>2, <2>1
  <2>5. cursor.at + 1 \in Nat /\ k \in 1 .. cursor.at + 1
    BY <1>2, <2>1
  <2> QED
    BY <1>1, <1>4, <2>2, <2>3, <2>4, <2>5, FetchedKeeps DEF FetchNext
<1>5. CASE Fetch
  <2>1. PICK at \in 0 .. Len(ids) : Fetched(at, <<>>) /\ CursorOnly
    BY <1>5 DEF Fetch
  <2>3. at \in Nat
    BY <1>2
  <2>4. at \in DOMAIN ids => Append(<<>>, ids[at]) = SubSeq(ids, at, at)
    <3> SUFFICES ASSUME at \in DOMAIN ids PROVE Append(<<>>, ids[at]) = SubSeq(ids, at, at)
      OBVIOUS
    <3>1. Append(SubSeq(ids, at, at - 1), ids[at - 1 + 1]) = SubSeq(ids, at, at - 1 + 1)
      BY <1>2, <2>3, OneFurther
    <3>2. SubSeq(ids, at, at - 1) = <<>> /\ at - 1 + 1 = at
      BY <2>3, SubSeqEmpty
    <3> QED
      BY <3>1, <3>2
  <2>5. at \in DOMAIN ids => \E k \in 1 .. at : Append(<<>>, ids[at]) = SubSeq(ids, k, at)
    BY <1>2, <2>3, <2>4
  <2> QED
    BY <1>1, <2>1, <2>3, <2>5, FetchedKeeps
<1> QED
  BY <1>3, <1>4, <1>5

(* A cursor is opened or closed.                                           *)
LEMMA OpenCursorKeeps ==
  ASSUME TablesInv, OpenCursor
  PROVE  TablesInv'
<1>1. PICK n \in DOMAIN inst.tables : \E sel :
        cursor' = [open |-> TRUE, all |-> sel = inst.tables[n].names, table |-> n, names |-> sel,
                   fetched |-> FALSE, at |-> 0, row |-> <<>>, seen |-> <<>>]
  BY DEF OpenCursor
<1>2. PICK sel :
        cursor' = [open |-> TRUE, all |-> sel = inst.tables[n].names, table |-> n, names |-> sel,
                   fetched |-> FALSE, at |-> 0, row |-> <<>>, seen |-> <<>>]
  BY <1>1
<1>3. exporting = "idle" /\ inst.loaded
      /\ UNCHANGED <<needChange, package, inst, tmp, exporting, ops, refused, halfLoaded, origin, fresh, exported>>
  BY DEF OpenCursor
<1>4. /\ cursor' \in [open : {TRUE}, all : BOOLEAN, table : DOMAIN inst.tables, names : {cursor'.names},
                      fetched : BOOLEAN, at : Nat, row : {cursor'.row}, seen : {cursor'.seen}]
      /\ cursor'.table = n /\ cursor'.fetched = FALSE /\ cursor'.seen = <<>>
      /\ cursor'.names = sel /\ (cursor'.all => sel = inst.tables[n].names)
  BY <1>2
<1>5. Table' = inst.tables[n]
  BY <1>3, <1>4 DEF Table
<1>6. CursorInv'
  BY <1>3, <1>4, <1>5 DEF CursorInv
<1> QED
  BY <1>3, <1>6, CursorMoves

LEMMA CursorCloseKeeps ==
  ASSUME TablesInv, Close
  PROVE  TablesInv'
<1>1. cursor.open /\ cursor' = NoCursor
      /\ UNCHANGED <<needChange, package, inst, tmp, exporting, ops, refused, halfLoaded, origin, fresh, exported>>
  BY DEF Close, CursorOnly
<1>2. cursor # NoCursor
  BY <1>1 DEF NoCursor
<1> QED
  BY <1>1, <1>2, CursorClosed, CursorMoves, TableFacts

LEMMA TablesRest ==
  ASSUME TablesInv, UNCHANGED vars
  PROVE  TablesInv'
<1>1. UNCHANGED <<needChange, package, inst, tmp, exporting, cursor, ops, refused, halfLoaded, origin, fresh, exported>>
  BY DEF vars
<1>2. TableTypes'
  BY <1>1 DEF TablesInv, TableTypes
<1>3. ExportInv' /\ RefusedInv' /\ LoadedInv' /\ CheckedInv'
  BY <1>1 DEF TablesInv, ExportInv, RefusedInv, LoadedInv, CheckedInv, FromTmp
<1>4. ExportedExact'
  BY <1>1, ExportedKept DEF TablesInv
<1>5. CursorInv'
  BY ZenonT(60), <1>1 DEF TablesInv, CursorInv, Scanned, Reached, Columns, Table
<1> QED
  BY <1>2, <1>3, <1>4, <1>5 DEF TablesInv

LEMMA TablesStep ==
  ASSUME TablesInv, [Next]_vars
  PROVE  TablesInv'
<1>1. CASE loadDataBase \/ destroy_Instant \/ ChangePackage \/ expExcel
  BY <1>1, loadDataBaseKeeps, destroy_InstantKeeps, ChangePackageKeeps, expExcelKeeps
<1>2. CASE ExportText \/ ExportOpen \/ ExportDump \/ ExportLoad
  BY <1>2, ExportTextKeeps, ExportOpenKeeps, ExportDumpKeeps, ExportLoadKeeps
<1>3. CASE ExportCompare \/ ExportOutput \/ Crash
  BY <1>3, ExportCompareKeeps, ExportOutputKeeps, TableCrashKeeps
<1>4. CASE OpenCursor \/ FetchFirst \/ FetchNext \/ Fetch \/ Close
  BY <1>4, OpenCursorKeeps, CursorCallKeeps, CursorCloseKeeps
<1>5. CASE Done \/ UNCHANGED vars
  BY <1>5, TablesRest DEF Done
<1> QED
  BY <1>1, <1>2, <1>3, <1>4, <1>5 DEF Next

-----------------------------------------------------------------------------
(* What the invariant says of what users see.                              *)
LEMMA TablesTyped == TablesInv => TypeOK
BY DEF TablesInv, TableTypes, RefusedInv, DbOK, TablesOK, TypeOK

LEMMA LiveTyped == LiveInv => Live!TypeOK
<1> SUFFICES ASSUME LiveInv PROVE Live!TypeOK
  OBVIOUS
<1>1. ASSUME NEW s \in LiveSlots
      PROVE  conns[s].at \in {"none", "parse", "read", "hung", "answered", "exists", "stat", "stream"}
  <2>1. CASE conns[s] = Live!NoRequest
    BY <2>1 DEF Live!NoRequest
  <2>2. CASE conns[s] \in Live!Uploads
    BY <2>2 DEF Live!Uploads
  <2>3. CASE conns[s] \in Reading
    BY <2>3 DEF Reading
  <2>4. CASE conns[s] \in Download
    BY <2>4 DEF Download
  <2>5. CASE Answered(conns[s])
    BY <2>5 DEF Answered
  <2> QED
    BY <2>1, <2>2, <2>3, <2>4, <2>5 DEF LiveInv, ConnInv, ConnOK
<1>2. Live!Complete \subseteq DOMAIN dirs
  BY DEF Live!Complete
<1> QED
  BY <1>1, <1>2 DEF LiveInv, FileInv, DownloadInv, Live!TypeOK

LEMMA TablesLoaded == TablesInv => LoadedExact
<1> SUFFICES ASSUME TablesInv, inst.loaded, ~halfLoaded PROVE LoadedExact
  BY DEF LoadedExact
<1>1. /\ PartsOK(origin) /\ LastOnly(origin)
      /\ inst.tables = [n \in DOMAIN origin |-> LoadBinTable([tables |-> origin], n)]
  BY DEF TablesInv, LoadedInv
<1>2. ASSUME NEW n \in DOMAIN origin, inst.tables[n] # origin[n].table
      PROVE  /\ origin[n].cut # <<>> \/ Cardinality(DOMAIN origin[n].table.rows) >= CountSize
             /\ \A m \in DOMAIN origin : Comes(m, n)
             /\ inst.tables[n] = [origin[n].table EXCEPT !.rows = inst.tables[n].rows]
             /\ NoneInvented(inst.tables[n], origin[n].table)
  <2> PICK file, wrote, seen :
        file = [tables |-> origin] /\ wrote = origin[n].table /\ seen = inst.tables[n]
    OBVIOUS
  <2>1. file.tables[n] = origin[n] /\ PartOK(file.tables[n]) /\ seen = LoadBinTable(file, n)
    BY <1>1 DEF PartsOK
  <2>2. /\ seen = [wrote EXCEPT !.rows = seen.rows] /\ NoneInvented(seen, wrote)
        /\ ~Spills(file, n) /\ origin[n].cut = <<>> => seen = wrote
        /\ Cardinality(DOMAIN wrote.rows) < CountSize => ~Spills(file, n)
    BY <2>1, PartRead
  <2>3. origin[n].cut # <<>> \/ Spills(file, n)
    BY <1>2, <2>2
  <2>4. ASSUME NEW m \in DOMAIN origin
        PROVE  Comes(m, n)
    <3>1. m # n => ~Comes(n, m)
      BY <1>1, <2>3 DEF LastOnly
    <3>2. m \in ToSet(Names) /\ n \in ToSet(Names)
      BY <1>1 DEF PartsOK
    <3>3. PICK i \in DOMAIN Names, j \in DOMAIN Names : Names[i] = m /\ Names[j] = n
      BY <3>2 DEF ToSet
    <3>4. DOMAIN Names \subseteq Int
      BY NamesAssumption
    <3>5. i <= j \/ j <= i
      BY <3>4
    <3> QED
      BY <3>1, <3>3, <3>5 DEF Comes
  <2>5. Cardinality(DOMAIN wrote.rows) \in Nat /\ CountSize \in Nat
    <3>1. IsFiniteSet(DOMAIN wrote.rows)
      BY <2>1 DEF PartOK, TableOK
    <3> QED
      BY <3>1, FS_CardinalityType, CountAssumption
  <2>6. origin[n].cut # <<>> \/ Cardinality(DOMAIN wrote.rows) >= CountSize
    BY <2>2, <2>3, <2>5
  <2> QED
    BY <2>2, <2>4, <2>6
<1>3. DOMAIN inst.tables = DOMAIN origin
  BY <1>1
<1> QED
  BY <1>2, <1>3 DEF LoadedExact, NoneInvented

LEMMA TablesShown == TablesInv => CursorExact
<1> SUFFICES ASSUME TablesInv, cursor.open, cursor.seen # <<>> PROVE CursorExact
  BY DEF CursorExact
<1> PICK ids, n : ids = Ids(Table) /\ n = Cardinality(DOMAIN Table.rows)
  OBVIOUS
<1>1. cursor # NoCursor
  BY DEF NoCursor
<1>2. /\ n \in Nat /\ ids \in Seq(Int) /\ Len(ids) = n /\ DOMAIN ids = 1 .. n
      /\ ids \in [1 .. n -> DOMAIN Table.rows] /\ TableOK(Table)
      /\ \A i, j \in 1 .. n : ids[i] = ids[j] => i = j
  BY <1>1, TableFacts
<1>3. /\ Scanned /\ (cursor.all => cursor.names = Table.names)
      /\ (cursor.fetched =>
           /\ cursor.at \in 1 .. n
           /\ cursor.row = [i \in DOMAIN Columns |-> IF Columns[i] = 0 THEN Empty
                                                     ELSE Table.rows[ids[cursor.at]][Columns[i]]])
  BY <1>1 DEF TablesInv, CursorInv
<1> PICK last : last = IF cursor.fetched THEN cursor.at ELSE Len(ids)
  OBVIOUS
<1>4. last = Reached /\ last \in 0 .. n
  BY <1>2, <1>3 DEF Reached
<1>5. PICK k \in 1 .. last : cursor.seen = SubSeq(ids, k, last)
  BY <1>3, <1>4 DEF Scanned
<1>6. cursor.seen[1] = ids[k]
  <2>1. \A i \in k .. last : ids[i] \in Int
    BY <1>2, <1>4
  <2>2. \A i \in 1 .. last - k + 1 : SubSeq(ids, k, last)[i] = ids[k + i - 1]
    BY <1>4, <2>1, SubSeqProperties
  <2>3. 1 \in 1 .. last - k + 1 /\ k + 1 - 1 = k
    BY <1>4
  <2>4. SubSeq(ids, k, last)[1] = ids[k + 1 - 1]
    BY <2>2, <2>3
  <2> QED
    BY <1>5, <2>3, <2>4
<1>7. (CHOOSE i \in DOMAIN ids : ids[i] = cursor.seen[1]) = k
  BY <1>2, <1>4, <1>6
<1>8. cursor.seen = SubSeq(ids, CHOOSE i \in DOMAIN ids : ids[i] = cursor.seen[1], last)
  BY <1>5, <1>7
<1>9. ASSUME cursor.fetched, NEW i \in DOMAIN cursor.row
      PROVE  cursor.row[i] = FindData(Table, ids[cursor.at], cursor.names[i])
  <2>1. ids[cursor.at] \in DOMAIN Table.rows
    BY <1>2, <1>3, <1>9
  <2>2. DOMAIN cursor.row = DOMAIN Columns
        /\ cursor.row[i] = IF Columns[i] = 0 THEN Empty ELSE Table.rows[ids[cursor.at]][Columns[i]]
    BY <1>3, <1>9
  <2>3. Columns[i] = ColIndex(Table, cursor.names[i])
    <3>1. CASE ~cursor.all
      BY <2>2, <3>1 DEF Columns
    <3>2. CASE cursor.all
      <4>1. i \in DOMAIN Table.names /\ Columns[i] = i /\ cursor.names[i] = Table.names[i]
        BY <1>3, <2>2, <3>2 DEF Columns
      <4>2. {j \in DOMAIN Table.names : Table.names[i] \in {Table.aliases[j], Table.names[j]}} = {i}
        BY <1>2, <4>1 DEF TableOK
      <4>3. i \in Nat
        BY <1>2, <4>1 DEF TableOK
      <4>4. Min({i}) = i
        BY <4>3 DEF Min
      <4>5. ColIndex(Table, Table.names[i]) = i
        BY <4>2, <4>4 DEF ColIndex
      <4> QED
        BY <4>1, <4>5
    <3> QED
      BY <3>1, <3>2
  <2> QED
    BY <2>1, <2>2, <2>3 DEF FindData
<1> QED
  BY <1>8, <1>9 DEF CursorExact

-----------------------------------------------------------------------------
(* The tables are what they were loaded from, exports check what they      *)
(* leave, and cursors show it, whatever texts, packages and byte orders    *)
(* come, and beside the live update server.                                *)
LEMMA TablesAlways == MCSpec => []TablesInv
<1>1. MCInit => TablesInv
  BY TablesStart DEF MCInit
<1>2. TablesInv /\ [MCNext]_<<part, vars, liveVars>> => TablesInv'
  BY TablesStep DEF MCNext
<1> QED
  BY <1>1, <1>2, PTL DEF MCSpec

LEMMA LiveAlways == MCSpec => []LiveInv
<1>1. MCInit => LiveInv
  BY LiveStarts DEF MCInit
<1>2. LiveInv /\ [MCNext]_<<part, vars, liveVars>> => LiveInv'
  BY LiveStep, LiveRests DEF Promise, MCNext
<1> QED
  BY <1>1, <1>2, PTL DEF MCSpec

(* The types of both: a good package is refused at most once in a row, as  *)
(* the flag for the byte order is gone by then; no upload is saved over    *)
(* the directory of all versions.                                          *)
THEOREM TypesCorrect == MCSpec => []TypesOK
BY TablesAlways, LiveAlways, TablesTyped, LiveTyped, PTL DEF TypesOK

(* A loaded singleton has the tables of its package and none of another,   *)
(* after failed loads, foreign and cut-off packages, changed byte orders   *)
(* and exports; each is as it was written, but the last one may have lost  *)
(* cells where the file ends in it or its rows could not be counted, and   *)
(* has then no cell that was not written there.                            *)
THEOREM LoadedCorrect == MCSpec => []LoadedExact
BY TablesAlways, TablesLoaded, PTL

(* When an export returned true and wrote all of the package, that is the  *)
(* text; a good one that it could not write over agrees with the text in   *)
(* the rows that both have.                                                *)
THEOREM ExportedCorrect == MCSpec => []ExportedExact
<1>1. TablesInv => ExportedExact
  BY DEF TablesInv
<1> QED
  BY <1>1, TablesAlways, PTL

(* A cursor shows every row once and in order, and the cells of FindData.  *)
THEOREM CursorCorrect == MCSpec => []CursorExact
BY TablesAlways, TablesShown, PTL
-----------------------------------------------------------------------------
(* How many callbacks a request still waits for: the form or the file that *)
(* is read; of a download, whether its file exists and how long it is.     *)
CallbacksLeft(at) == CASE at \in {"parse", "read", "exists"} -> 2
                       [] at = "stat" -> 1
                       [] OTHER -> 0

Nearer(s) ==
  /\ Live!Callback(s) /\ CallbacksLeft(conns[s].at) > 0 =>
       CallbacksLeft(conns[s].at)' < CallbacksLeft(conns[s].at)
  /\ conns[s] # Live!NoRequest => CallbacksLeft(conns[s].at)' <= CallbacksLeft(conns[s].at)

(* What is left at every point of a request.                               *)
LEMMA CallbacksFacts ==
  /\ \A at : CallbacksLeft(at) \in 0 .. 2
  /\ CallbacksLeft("parse") = 2 /\ CallbacksLeft("read") = 2 /\ CallbacksLeft("exists") = 2
  /\ CallbacksLeft("stat") = 1
  /\ \A at \in {"none", "answered", "hung", "stream"} : CallbacksLeft(at) = 0
BY DEF CallbacksLeft

(* Answering, going on and the end of the process, for every connection.   *)
LEMMA ConnsMove ==
  ASSUME ConnInv, NEW s \in LiveSlots
  PROVE  /\ \A body : Live!Answer(s, body) =>
              \A t \in LiveSlots : conns'[t].at = IF t = s THEN "answered" ELSE conns[t].at
         /\ Live!Die => \A t \in LiveSlots : conns'[t].at = "none"
<1>1. ASSUME NEW body, Live!Answer(s, body), NEW t \in LiveSlots
      PROVE  conns'[t].at = IF t = s THEN "answered" ELSE conns[t].at
  BY <1>1 DEF Live!Answer, ConnInv
<1>2. ASSUME Live!Die, NEW t \in LiveSlots
      PROVE  conns'[t].at = "none"
  BY <1>2 DEF Live!Die, Live!NoRequest
<1> QED
  BY <1>1, <1>2

(* A request that waits for a file can go on.                              *)
LEMMA Waits ==
  ASSUME ConnInv, NEW s \in LiveSlots, conns[s].at \in {"read", "exists", "stat"}
  PROVE  "at" \in DOMAIN conns[s]
<1>1. ConnOK(conns[s])
  BY DEF ConnInv
<1>2. conns[s] # Live!NoRequest /\ ~Answered(conns[s])
  <2>1. conns[s] # Live!NoRequest
    BY DEF Live!NoRequest
  <2>2. ASSUME NEW o, NEW b, conns[s] = [op |-> o, at |-> "answered", body |-> b]
        PROVE  FALSE
    <3>1. conns[s].at = "answered"
      BY <2>2
    <3> QED
      BY <3>1
  <2> QED
    BY <2>1, <2>2 DEF Answered
<1>3. conns[s] \notin Live!Uploads
  BY DEF Live!Uploads
<1>4. conns[s] \in Reading \/ conns[s] \in Download
  BY <1>1, <1>2, <1>3 DEF ConnOK
<1>5. ASSUME conns[s] \in Reading PROVE "at" \in DOMAIN conns[s]
  BY <1>5 DEF Reading
<1>6. ASSUME conns[s] \in Download PROVE "at" \in DOMAIN conns[s]
  BY <1>6 DEF Download
<1> QED
  BY <1>4, <1>5, <1>6

(* Going on changes where this request is.                                 *)
LEMMA GoMoves ==
  ASSUME ConnInv, NEW s \in LiveSlots, conns[s].at \in {"read", "exists", "stat"}
  PROVE  \A at : Live!Go(s, at) =>
           \A t \in LiveSlots : conns'[t].at = IF t = s THEN at ELSE conns[t].at
<1> TAKE at
<1>1. "at" \in DOMAIN conns[s] /\ DOMAIN conns = LiveSlots
  BY Waits DEF ConnInv
<1>2. ASSUME Live!Go(s, at), NEW t \in LiveSlots
      PROVE  conns'[t].at = IF t = s THEN at ELSE conns[t].at
  <2>1. conns'[t] = IF t = s THEN [conns[s] EXCEPT !.at = at] ELSE conns[t]
    BY <1>1, <1>2 DEF Live!Go, ConnInv
  <2>2. [conns[s] EXCEPT !.at = at].at = at
    BY <1>1
  <2> QED
    BY <2>1, <2>2
<1> QED
  BY <1>2

(* A callback takes its own request on and leaves the others where they    *)
(* are, or ends all.                                                       *)
LEMMA CallbackMoves ==
  ASSUME ConnInv, NEW s \in LiveSlots, Live!Callback(s)
  PROVE  \/ \A t \in LiveSlots : conns'[t].at = "none"
         \/ /\ \A t \in LiveSlots \ {s} : conns'[t].at = conns[t].at
            /\ \/ conns[s].at = "exists" /\ conns'[s].at \in {"stat", "hung"}
               \/ conns[s].at = "stat" /\ conns'[s].at = "stream"
               \/ conns[s].at = "stream" /\ conns'[s].at \in {"stream", "answered"}
               \/ conns[s].at \in {"parse", "read"} /\ conns'[s].at \in {"answered", "hung"}
<1>1. CASE Live!saveFiles(s) \/ Live!UploadVersionHandle(s)
  <2>1. conns[s].at = "parse" /\ (Live!Die \/ \E body : Live!Answer(s, body))
    BY <1>1 DEF Live!saveFiles, Live!UploadVersionHandle
  <2> QED
    BY <2>1, ConnsMove
<1>2. CASE Live!DownLoadList(s)
  <2>1. conns[s].at = "read" /\ \E body : Live!Answer(s, body)
    BY <1>2 DEF Live!DownLoadList
  <2> QED
    BY <2>1, ConnsMove
<1>3. CASE Live!getUploadLog(s)
  <2>1. conns[s].at = "read" /\ (Live!Go(s, "hung") \/ \E body : Live!Answer(s, body))
    BY <1>3 DEF Live!getUploadLog
  <2>2. CASE \E body : Live!Answer(s, body)
    BY <2>1, <2>2, ConnsMove
  <2>3. CASE Live!Go(s, "hung")
    BY <2>1, <2>3, GoMoves
  <2> QED
    BY <2>1, <2>2, <2>3
<1>4. CASE Live!Download(s)
  <2>1. conns[s].at = "exists" /\ \E at \in {"stat", "hung"} : Live!Go(s, at)
    BY <1>4 DEF Live!Download
  <2> QED
    BY <2>1, GoMoves
<1>5. CASE Live!beginDownload(s)
  <2>1. conns[s].at = "stat" /\ conns' = [conns EXCEPT ![s].at = "stream", ![s].pos = conns[s].start]
    BY <1>5 DEF Live!beginDownload
  <2>2. "at" \in DOMAIN conns[s] /\ DOMAIN conns = LiveSlots
    BY <2>1, Waits DEF ConnInv
  <2>3. \A t \in LiveSlots \ {s} : conns'[t] = conns[t]
    BY <2>1 DEF ConnInv
  <2>4. conns'[s] = [[conns[s] EXCEPT !.at = "stream"] EXCEPT !.pos = conns[s].start]
    BY <2>1, <2>2
  <2>5. conns'[s].at = "stream"
    BY <2>2, <2>4
  <2> QED
    BY <2>1, <2>3, <2>5
<1>6. CASE Live!Stream(s)
  <2>1. conns[s].at = "stream"
    BY <1>6 DEF Live!Stream
  <2>2. CASE \E body : Live!Answer(s, body)
    BY <2>1, <2>2, ConnsMove
  <2>3. CASE conns' = [conns EXCEPT ![s].pos = @ + 1]
    <3>1. ASSUME NEW t \in LiveSlots PROVE conns'[t].at = conns[t].at
      BY <2>3 DEF ConnInv
    <3> QED
      BY <2>1, <3>1
  <2> QED
    BY <1>6, <2>2, <2>3 DEF Live!Stream
<1> QED
  BY <1>1, <1>2, <1>3, <1>4, <1>5, <1>6 DEF Live!Callback

(* The other steps begin a request where there was none, or end one.       *)
LEMMA OthersMove ==
  ASSUME ConnInv, Live!Next \/ UNCHANGED liveVars, NEW t \in LiveSlots, conns[t] # Live!NoRequest
  PROVE  \/ \E s \in LiveSlots : Live!Callback(s)
         \/ conns'[t].at = conns[t].at \/ conns'[t].at = "none"
<1>1. ASSUME NEW s \in LiveSlots, Live!checkIP(s) \/ Live!request_route(s) \/ Live!DownLoadData(s)
      PROVE  conns'[t] = conns[t]
  <2>1. PICK request : Live!Ask(s, request)
    BY <1>1 DEF Live!checkIP, Live!request_route, Live!DownLoadData
  <2>2. t # s
    BY <2>1 DEF Live!Ask
  <2> QED
    BY <2>1, <2>2 DEF Live!Ask, ConnInv
<1>2. ASSUME NEW s \in LiveSlots, Live!Leave(s)
      PROVE  conns'[t] = conns[t] \/ conns'[t].at = "none"
  BY <1>2 DEF Live!Leave, ConnInv, Live!NoRequest
<1>3. CASE Live!appendFile \/ Live!Restart \/ Live!Done \/ UNCHANGED liveVars
  BY <1>3 DEF Live!appendFile, Live!Restart, Live!Done, Live!vars, liveVars
<1>4. CASE Live!Crash
  BY <1>4, ConnsMove DEF Live!Crash
<1> QED
  BY <1>1, <1>2, <1>3, <1>4 DEF Live!Next

(* A request waits for two callbacks at most, each of its callbacks is one *)
(* less, and no other connection's request, error or restart makes them    *)
(* more: what EveryRequestEnds still needs is only that they come.         *)
THEOREM RequestsGetNearer ==
  MCSpec => [][\A s \in LiveSlots : Nearer(s)]_<<part, vars, liveVars>>
<1>1. LiveInv /\ [MCNext]_<<part, vars, liveVars>> => [\A s \in LiveSlots : Nearer(s)]_<<part, vars, liveVars>>
  <2> SUFFICES ASSUME LiveInv, MCNext, NEW s \in LiveSlots PROVE Nearer(s)
    OBVIOUS
  <2>1. ConnInv /\ (Live!Next \/ UNCHANGED liveVars)
    BY DEF LiveInv, MCNext
  <2> DEFINE before == CallbacksLeft(conns[s].at)
             after == CallbacksLeft(conns'[s].at)
  <2>2. before \in 0 .. 2 /\ after \in 0 .. 2
    BY CallbacksFacts
  <2>3. ASSUME Live!Callback(s) PROVE (before > 0 => after < before) /\ after <= before
    BY <2>1, <2>2, <2>3, CallbackMoves, CallbacksFacts
  <2>4. ASSUME NEW t \in LiveSlots \ {s}, Live!Callback(t) PROVE after <= before
    <3>1. conns'[s].at = conns[s].at \/ conns'[s].at = "none"
      BY <2>1, <2>4, CallbackMoves
    <3> QED
      BY <2>2, <3>1, CallbacksFacts
  <2>5. ASSUME conns[s] # Live!NoRequest PROVE after <= before
    <3>1. CASE conns'[s].at = conns[s].at \/ conns'[s].at = "none"
      BY <2>2, <3>1, CallbacksFacts
    <3>2. CASE \E t \in LiveSlots : Live!Callback(t)
      BY <2>3, <2>4, <3>2
    <3> QED
      BY <2>1, <2>5, <3>1, <3>2, OthersMove
  <2> QED
    BY <2>3, <2>5 DEF Nearer
<1> QED
  BY <1>1, LiveAlways, PTL DEF MCSpec
=============================================================================
