----------------------------- MODULE LiveUpdate -----------------------------
(***************************************************************************)
(* The live update server (tool/liveupdate-node: upload.js, downloadFile.js,*)
(* resumable.js, route.js, gmTool.js): versions are uploaded with a form,   *)
(* kept in a directory each, listed in a file, and downloaded by clients    *)
(* that resume at the byte where they were cut off.  Node runs one callback *)
(* at a time; between the callbacks of a request come those of others, and  *)
(* the process can end anywhere.                                            *)
(***************************************************************************)
EXTENDS Naturals, Sequences, SequencesExt

CONSTANTS Slots,       \* connections
          Texts,       \* what the version file of an upload can say, a sequence of characters
          Data, Size,  \* data files, and their bytes
          MaxRequests  \* bound: requests

VARIABLES dirs,     \* the files of the directories below liveUpdateDir, by name
          list,     \* the lines of datalist.txt
          log,      \* the lines of upload.log
          appends,  \* appendFile that has not been done yet: [to, line]
          conns,    \* the request of every connection, and how far it got
          wanted, got,  \* the client: his version, the bytes he has
          requests  \* requests so far

server == <<dirs, list, log, appends>>
vars == <<dirs, list, log, appends, conns, wanted, got, requests>>

\* trim_verID: without any blanks
trim_verID(text) == SelectSeq(text, LAMBDA c : c # " ")
Versions == {trim_verID(t) : t \in Texts}

NoRequest == [op |-> "none", at |-> "none"]

\* Nothing but its md5 matters of an upload that is not accepted: the file is
\* wrong or empty, or the form does not have it.
Uploads == [op : {"upload"}, at : {"parse"}, text : Texts, data : Data, md5 : {"right"}]
           \cup [op : {"upload"}, at : {"parse"}, md5 : {"wrong", "missing"}]

\* mutant: the update directory itself is not taken for a version
Exists_root(v) == v \in DOMAIN dirs
Exists(v) == v = <<>> \/ v \in DOMAIN dirs
HasFile(v, f) == v \in DOMAIN dirs /\ f \in dirs[v].files

Init ==
  /\ dirs = <<>> /\ list = <<>> /\ log = <<>> /\ appends = {}
  /\ conns = [s \in Slots |-> NoRequest]
  /\ wanted \in Versions /\ got = <<>> /\ requests = 0

Answer(s, body) == conns' = [conns EXCEPT ![s] = [op |-> @.op, at |-> "answered", body |-> body]]
Go(s, at) == conns' = [conns EXCEPT ![s].at = at]

----------------------------------------------------------------------------
(* Requests come in.                                                       *)

Ask(s, request) ==
  /\ conns[s] = NoRequest /\ requests < MaxRequests
  /\ requests' = requests + 1
  /\ conns' = [conns EXCEPT ![s] = request]
  /\ UNCHANGED <<server, wanted, got>>

\* The port of the managers answers only the addresses it knows; the others
\* are left waiting.
checkIP(s) ==
  \/ \E u \in Uploads : Ask(s, u)
  \/ Ask(s, [op |-> "log", at |-> "read"])
  \/ Ask(s, [op |-> "denied", at |-> "hung"])

\* Everything else, known or not, is answered at once.
request_route(s) ==
  \/ Ask(s, [op |-> "list", at |-> "read"])
  \/ Ask(s, [op |-> "page", at |-> "answered", body |-> "page"])

Downloading == \E s \in Slots : conns[s].op = "load" /\ conns[s].at # "none"

\* The client asks for what he does not have yet: without a range when he
\* has nothing.
DownLoadData(s) ==
  /\ ~Downloading
  /\ Ask(s, [op |-> "load", at |-> "exists", start |-> Len(got), pos |-> 0])

\* Who has his answer goes away, and so can who waits for it.
Leave(s) ==
  /\ conns[s].at \in {"answered", "hung", "stream"}
  /\ conns' = [conns EXCEPT ![s] = NoRequest]
  /\ UNCHANGED <<server, wanted, got, requests>>

\* The client begins anew, with another version.
Restart ==
  /\ ~Downloading /\ requests < MaxRequests
  /\ wanted' \in Versions \ {wanted} /\ got' = <<>>
  /\ UNCHANGED <<server, conns, requests>>

----------------------------------------------------------------------------
(* The process ends, by an exception that no one catches or otherwise, and *)
(* is started again.                                                       *)

Die == conns' = [s \in Slots |-> NoRequest] /\ appends' = {}

Crash ==
  /\ \E s \in Slots : conns[s] # NoRequest
  /\ Die
  /\ UNCHANGED <<dirs, list, log, wanted, got, requests>>

----------------------------------------------------------------------------
(* saveFiles, one callback, can be stopped between two of its calls by an  *)
(* error, which is answered, or by the end of the process.                 *)

\* mkdirSync, then a renameSync for each file
Files == <<"version.txt", "data", "md5file.txt">>
Directory(u, n) == [data |-> u.data, files |-> ToSet(SubSeq(Files, 1, n - 1))]

Save(u, n) ==
  LET v == trim_verID(u.text) IN
  IF n = 0 THEN UNCHANGED dirs
  ELSE dirs' = [w \in DOMAIN dirs \cup {v} |-> IF w = v THEN Directory(u, n) ELSE dirs[w]]

saveFiles(s) ==
  LET u == conns[s]
      v == trim_verID(u.text)
  IN
  /\ u.op = "upload" /\ u.at = "parse" /\ u.md5 = "right"
  /\ \/ Exists(v) /\ Answer(s, "already exist") /\ UNCHANGED <<dirs, appends>>
     \/ /\ ~Exists(v)
        /\ \/ /\ Save(u, Len(Files) + 1)
              /\ Answer(s, "success")
              /\ appends' = appends \cup {[to |-> "log", line |-> v], [to |-> "list", line |-> v]}
           \/ \E n \in 0..Len(Files) :
                /\ Save(u, n)
                /\ (Answer(s, "parse data error") /\ UNCHANGED appends) \/ Die
  /\ UNCHANGED <<list, log, wanted, got, requests>>

\* A form without any information on md5 ends the process (files.Md5Info is
\* undefined); an empty or wrong one refuses the upload.
UploadVersionHandle(s) ==
  /\ conns[s].op = "upload" /\ conns[s].at = "parse" /\ conns[s].md5 # "right"
  /\ \/ conns[s].md5 = "missing" /\ Die
     \/ conns[s].md5 # "missing" /\ Answer(s, "md5 check error") /\ UNCHANGED appends
  /\ UNCHANGED <<dirs, list, log, wanted, got, requests>>

\* The two appendFile are done in any order, or fail unnoticed.
appendFile ==
  \E a \in appends :
    /\ appends' = appends \ {a}
    /\ \/ a.to = "list" /\ list' = Append(list, a.line) /\ UNCHANGED log
       \/ a.to = "log" /\ log' = Append(log, a.line) /\ UNCHANGED list
       \/ UNCHANGED <<list, log>>
    /\ UNCHANGED <<dirs, conns, wanted, got, requests>>

\* mutant: without a log there is no answer
getUploadLog_empty(s) ==
  /\ conns[s].op = "log" /\ conns[s].at = "read" /\ log # <<>>
  /\ Answer(s, log) \/ Go(s, "hung")
  /\ UNCHANGED <<server, wanted, got, requests>>

\* Nobody is answered by getUploadLog when the log cannot be read.
getUploadLog(s) ==
  /\ conns[s].op = "log" /\ conns[s].at = "read"
  /\ \/ Answer(s, log)
     \/ log # <<>> /\ Go(s, "hung")
  /\ UNCHANGED <<server, wanted, got, requests>>

DownLoadList(s) ==
  /\ conns[s].op = "list" /\ conns[s].at = "read"
  /\ Answer(s, list)
  /\ UNCHANGED <<server, wanted, got, requests>>

----------------------------------------------------------------------------
(* A download: exists, stat, and the stream.                               *)

Download(s) ==
  /\ conns[s].op = "load" /\ conns[s].at = "exists"
  /\ IF HasFile(wanted, "data") THEN Go(s, "stat") ELSE Go(s, "hung")
  /\ UNCHANGED <<server, wanted, got, requests>>

\* mutant: the range is not looked at
beginDownload_whole(s) ==
  /\ conns[s].op = "load" /\ conns[s].at = "stat"
  /\ conns' = [conns EXCEPT ![s].at = "stream"]
  /\ UNCHANGED <<server, wanted, got, requests>>

\* getStartPos: the stream begins behind the bytes the client has.
beginDownload(s) ==
  /\ conns[s].op = "load" /\ conns[s].at = "stat"
  /\ conns' = [conns EXCEPT ![s].at = "stream", ![s].pos = conns[s].start]
  /\ UNCHANGED <<server, wanted, got, requests>>

Stream(s) ==
  LET d == dirs[wanted].data IN
  /\ conns[s].op = "load" /\ conns[s].at = "stream"
  /\ \/ /\ conns[s].pos < Size[d]
        /\ got' = Append(got, [d |-> d, i |-> conns[s].pos + 1])
        /\ conns' = [conns EXCEPT ![s].pos = @ + 1]
     \/ /\ conns[s].pos = Size[d]
        /\ Answer(s, "end") /\ UNCHANGED got
  /\ UNCHANGED <<server, wanted, requests>>

\* The bound on requests is reached, and all are answered.
Done == requests = MaxRequests /\ appends = {} /\ (\A s \in Slots : conns[s] = NoRequest) /\ UNCHANGED vars

Callback(s) == saveFiles(s) \/ UploadVersionHandle(s) \/ getUploadLog(s) \/ DownLoadList(s)
               \/ Download(s) \/ beginDownload(s) \/ Stream(s)

Next == \/ \E s \in Slots : checkIP(s) \/ request_route(s) \/ DownLoadData(s) \/ Leave(s) \/ Callback(s)
        \/ appendFile \/ Restart \/ Crash \/ Done

\* libuv runs the callback of whatever has finished.
Fairness == WF_vars(appendFile) /\ \A s \in Slots : WF_vars(Callback(s))

Spec == Init /\ [][Next]_vars /\ Fairness
----------------------------------------------------------------------------
\* The server's files, its callbacks and the client stay within their states,
\* and no upload is saved over the directory of all versions.
TypeOK ==
  /\ DOMAIN dirs \subseteq Versions \ {<<>>}
  /\ \A v \in DOMAIN dirs : dirs[v].data \in Data /\ dirs[v].files \subseteq ToSet(Files)
  /\ \A a \in appends : a.to \in {"list", "log"} /\ a.line \in Versions
  /\ \A s \in Slots : conns[s].at \in {"none", "parse", "read", "hung", "answered", "exists", "stat", "stream"}
  /\ wanted \in Versions /\ requests \in 0..MaxRequests

Complete == {v \in DOMAIN dirs : HasFile(v, "data")}
Store == INSTANCE VersionStore WITH
           published <- [v \in Complete |-> dirs[v].data],
           listed <- ToSet(list)

\* The server keeps its promises: a version is never published twice, changed
\* or half listed, through uploads of the same version at a time, names that
\* differ in blanks, errors and crashes in the middle of saveFiles; and a
\* download that is cut off and resumed, also across a restart, gives every
\* byte once and in order.
KeepsPromises == Store!Spec

\* Every request is answered or its connection ends, except three that are
\* left waiting for ever: a download of what is not there, a log that cannot
\* be read, and a manager with an address that is not known.
EveryRequestEnds ==
  \A s \in Slots : conns[s].at \in {"parse", "read", "exists", "stat"}
                     ~> conns[s].at \in {"stream", "answered", "none", "hung"}
=============================================================================
