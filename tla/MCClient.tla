------------------------------ MODULE MCClient ------------------------------
(***************************************************************************)
(* A client: its calls and its connection (ApoClient), the file it keeps   *)
(* to log in again without a password (SessionFile), and the tables by     *)
(* which it shows messages (MessageFormats).  One of them at a time; the   *)
(* others stay as they began.                                              *)
(***************************************************************************)
EXTENDS ApoClient

CONSTANTS
  MaxLogins, MaxKeys, \* bounds: logins, keys of the server
  Server, MaxBuild    \* the servers; bound: build times of messages

ASSUME MaxBuildAssumption == MaxBuild \in Nat

VARIABLES part, file, key, doing, loaded, m_srv_key, connected, result, srvKey, known,
          stage, m_pConn, host, owner, asked, table, saved, build

Saved == INSTANCE SessionFile WITH
  step <- doing, conn <- connected

Formats == INSTANCE MessageFormats

savedVars == <<file, key, doing, loaded, m_srv_key, connected, result, srvKey, known>>
shownVars == <<stage, m_pConn, host, owner, asked, table, saved, build>>

MCInit ==
  /\ part \in {"calls", "file", "formats"}
  /\ Init /\ Saved!Init /\ Formats!Init
  /\ part # "calls" => addressed
  /\ part # "formats" => \A s \in Server : build[s] = 1 /\ host = CHOOSE v \in Server : TRUE

MCNext ==
  /\ UNCHANGED part
  /\ \/ part = "calls" /\ Next /\ UNCHANGED <<savedVars, shownVars>>
     \/ part = "file" /\ Saved!Next /\ UNCHANGED <<vars, shownVars>>
     \/ part = "formats" /\ Formats!Next /\ UNCHANGED <<vars, savedVars>>

MCSpec == MCInit /\ [][MCNext]_<<part, vars, savedVars, shownVars>> /\ WF_vars(Work)
-----------------------------------------------------------------------------
(* What a client logs in again with is one whole login under the server's  *)
(* key, and a file that the server does not want is gone.                  *)
SessionFileSound == Saved!SentAsSaved /\ Saved!AsksOnce

(* A client that has loaded its tables can show what its server sends, by  *)
(* that server's tables if no other one is newer, and its scripts find a   *)
(* connection that is there.                                               *)
FormatsRight == Formats!MessagesShown /\ Formats!NothingForeign /\ Formats!OwnerLives
=============================================================================
