---------------------------- MODULE SessionFile ----------------------------
(***************************************************************************)
(* The session file of a client (cli_common/login_apollo.cpp): every login *)
(* writes what is needed to log in again without a password, over what the *)
(* file had, part by part; Relogin reads it, possibly after the program    *)
(* was cut off while it wrote, checks that the server still has the key it *)
(* was made with, and asks the server to take the session up again.        *)
(***************************************************************************)
EXTENDS Naturals, Sequences

CONSTANTS MaxLogins, MaxKeys  \* bounds: logins, keys of the server

VARIABLES file,   \* parts of the session file, each as the number of the login it is of
          key,    \* key[n]: the server's key when login n was made
          step,   \* what the client is doing
          loaded, \* login_session_load: the parts that were read
          m_srv_key, \* the server's key as the client knows it
          conn,   \* the client is connected
          result, \* what Relogin returned last
          srvKey, known  \* the server: its key, and the logins it takes up again

vars == <<file, key, step, loaded, m_srv_key, conn, result, srvKey, known>>

NoFile == <<0>>
Exists == file # NoFile
Parts == <<"md5", "acc_index", "size", "session_buf", "keymd5", "keysize", "srv_key">>
Part(f, name) == f[CHOOSE i \in DOMAIN Parts : Parts[i] = name]
NothingLoaded == <<>>

Init ==
  /\ file = NoFile /\ key = <<>> /\ step = "idle" /\ loaded = NothingLoaded
  /\ m_srv_key = 0 /\ conn = FALSE /\ result = 0
  /\ srvKey = 1 /\ known = {}

\* nd_rmfile; a relogin that fails in another way can be tried again.
Removes(why) == why \in {"load", "version", "username"}

\* Relogin returns.
Returns(r, why) ==
  /\ step' = "idle" /\ loaded' = NothingLoaded /\ result' = r
  /\ file' = IF Removes(why) THEN NoFile ELSE file

Connect ==
  /\ step = "idle" /\ ~conn
  /\ conn' = TRUE
  /\ UNCHANGED <<file, key, step, loaded, m_srv_key, result, srvKey, known>>

----------------------------------------------------------------------------
(* onLogin: the server grants a login, under the key the client has.       *)

Granted(k) ==
  /\ Len(key) < MaxLogins
  /\ key' = Append(key, k)
  /\ known' \in {known \cup {Len(key) + 1}, {Len(key) + 1}}

\* Login, after TrytoGetCryptKey
Login ==
  /\ step = "idle" /\ conn
  /\ Granted(srvKey) /\ m_srv_key' = srvKey
  /\ step' = "save" /\ result' = 0
  /\ UNCHANGED <<file, loaded, conn, srvKey>>

\* mutant: the parts are written over those that are there
Truncated_not(f) == IF f = NoFile THEN <<>> ELSE f
\* fopen(file_name, "wb")
Truncated(f) == <<>>

\* save_session_info; a file that cannot be opened stays as it is.
OpenFile ==
  /\ step = "save"
  /\ \/ file' = Truncated(file) /\ step' = "write"
     \/ UNCHANGED file /\ step' = "idle"
  /\ UNCHANGED <<key, loaded, m_srv_key, conn, result, srvKey, known>>

\* WRITE_TOFILE, for the first part that is not of this login; after an
\* error the others are left out, and nobody is told.
WriteFile ==
  LET mine == {i \in DOMAIN file : file[i] = Len(key)} IN
  /\ step = "write"
  /\ \/ /\ \E i \in DOMAIN Parts :
             /\ 1 .. i - 1 \subseteq mine /\ i \notin mine
             /\ file' = [j \in DOMAIN file \cup {i} |-> IF j = i THEN Len(key) ELSE file[j]]
        /\ UNCHANGED step
     \/ UNCHANGED file /\ step' = "idle"
  /\ UNCHANGED <<key, loaded, m_srv_key, conn, result, srvKey, known>>

----------------------------------------------------------------------------
(* Relogin                                                                 *)

\* load_session_info: all parts are there, and the session's md5 is right.
Readable(f) == Len(f) = Len(Parts) /\ Part(f, "md5") = Part(f, "session_buf")

load_session_info ==
  /\ step = "idle" /\ conn
  /\ IF Exists /\ Readable(file)
     THEN loaded' = file /\ step' = "version" /\ UNCHANGED <<file, result>>
     ELSE Returns(1, "load")
  /\ UNCHANGED <<key, m_srv_key, conn, srvKey, known>>

SameKey(k) == k = srvKey

\* checkCryptVersion; no answer, or none that can be read, costs the file
\* like a key that is not the server's.
checkCryptVersion ==
  /\ step = "version"
  /\ \/ /\ conn /\ SameKey(key[Part(loaded, "keymd5")])
        /\ m_srv_key' = key[Part(loaded, "srv_key")]
        /\ step' = "relogin" /\ UNCHANGED <<file, loaded, result>>
     \/ \E r \in {1, 2} : Returns(r, "version") /\ UNCHANGED m_srv_key
  /\ UNCHANGED <<key, conn, srvKey, known>>

\* relogin, where 1 is NDSYS_ERR_USERNAME, and 2 stands for -1
relogin ==
  /\ step = "relogin"
  /\ \/ /\ conn /\ Part(loaded, "session_buf") \in known
        /\ Granted(m_srv_key)
        /\ step' = "save" /\ loaded' = NothingLoaded /\ result' = 0
        /\ UNCHANGED file
     \/ /\ conn /\ Part(loaded, "session_buf") \notin known
        /\ Returns(1, "username")
        /\ UNCHANGED <<key, known>>
     \/ Returns(2, "other") /\ UNCHANGED <<key, known>>
  /\ UNCHANGED <<m_srv_key, conn, srvKey>>

----------------------------------------------------------------------------
(* The program ends anywhere and is started again; a server forgets logins *)
(* and, when it starts anew, has another key.                              *)

Crash ==
  /\ step # "idle"
  /\ step' = "idle" /\ loaded' = NothingLoaded /\ m_srv_key' = 0 /\ conn' = FALSE /\ result' = 0
  /\ UNCHANGED <<file, key, srvKey, known>>

Forget ==
  /\ known # {} /\ known' = {}
  /\ UNCHANGED <<file, key, step, loaded, m_srv_key, conn, result, srvKey>>

NewServer ==
  /\ srvKey < MaxKeys /\ srvKey' = srvKey + 1
  /\ conn' = FALSE
  /\ UNCHANGED <<file, key, step, loaded, m_srv_key, result, known>>

Next == Connect \/ Login \/ OpenFile \/ WriteFile \/ load_session_info \/ checkCryptVersion
        \/ relogin \/ Crash \/ Forget \/ NewServer

Spec == Init /\ [][Next]_vars
----------------------------------------------------------------------------
\* What a client logs in again with was saved by one login, whole, and was
\* made with the key of the server it is sent to: through files that were cut
\* off, files that could not be written, and servers with a new key.
SentAsSaved ==
  step = "relogin" =>
    /\ \A i \in DOMAIN Parts : loaded[i] = Part(loaded, "session_buf")
    /\ conn => m_srv_key = srvKey

\* When Relogin returns 1, which asks for a password, there is no file left
\* that it could return 1 for again and again.
AsksOnce == result = 1 => ~Exists
=============================================================================
