------------------------------- MODULE SdCast -------------------------------
(***************************************************************************)
(* The screen-cast receiver library (depends/sdcast) as the cluster uses   *)
(* it.  FrameReceiver2 is a thread that reads one message at a time from   *)
(* the peer (AP1) into ONE Surface object and hands a pointer to that same *)
(* object to the update callback, so every message overwrites the Surface  *)
(* the cluster still points to.  The library ships as a binary: this       *)
(* module keeps what the callback's code and the library's headers show of *)
(* it, and leaves open what they do not.                                   *)
(*                                                                         *)
(* "epoch" counts the times the library closed the descriptors it had      *)
(* exported, which it does on NO_CONTENT before the callback runs: the     *)
(* kernel then reuses their numbers for the buffers of the next session.   *)
(***************************************************************************)
EXTENDS Integers, Sequences

CONSTANTS
  Fds,       \* positive prime_fd values
  NoFd,      \* a prime_fd <= 0
  MaxMsgs    \* BOUND: messages and disconnections of a behaviour

ASSUME FdsAssumption == NoFd \notin Fds
ASSUME MaxMsgsAssumption == MaxMsgs \in Nat

VARIABLES
  surf,  \* the shared Surface: its cmd and prime_fd
  epoch, \* how often the exported descriptors were closed
  sent,  \* messages received so far, for the bound
  rpc    \* where the receiver thread is

castVars == <<surf, epoch, sent>>

Cmds == {"HAS_CONTENT", "NO_CONTENT", "HEART_BEAT", "SURFACE_INFO"}
AnyFd == Fds \cup {NoFd}

CastInit ==
  /\ surf = [cmd |-> "NONE", fd |-> NoFd]
  /\ epoch = 0
  /\ sent = 0

NextMessage == rpc = "read" /\ sent < MaxMsgs /\ sent' = sent + 1

\* A message that carries no picture.  The whole struct is overwritten: its
\* prime_fd is then a number of the peer's, which means nothing here.
ReadNotice(cmd) ==
  /\ NextMessage
  /\ \E fd \in AnyFd : surf' = [cmd |-> cmd, fd |-> fd]
  /\ epoch' = IF cmd = "NO_CONTENT" THEN epoch + 1 ELSE epoch
  /\ rpc' = "update"

\* A picture: prime_fd is -1 until the buffer's address has been looked up.
ReadSurface ==
  /\ NextMessage
  /\ surf' = [cmd |-> "SURFACE_INFO", fd |-> NoFd]
  /\ rpc' = "export"
  /\ UNCHANGED epoch

\* The descriptor of a known buffer, a fresh one, or -1 when the export failed.
ExportSurface ==
  /\ rpc = "export"
  /\ \E fd \in AnyFd : surf' = [surf EXCEPT !.fd = fd]
  /\ rpc' = "update"
  /\ UNCHANGED <<epoch, sent>>

\* The peer's connection breaks: the library reports NO_CONTENT on its behalf,
\* and keeps the descriptors it exported.
LoseConnection ==
  /\ NextMessage
  /\ surf' = [surf EXCEPT !.cmd = "NO_CONTENT"]
  /\ rpc' = "update"
  /\ UNCHANGED epoch

CastStep ==
  \/ \E cmd \in Cmds \ {"SURFACE_INFO"} : ReadNotice(cmd)
  \/ ReadSurface
  \/ ExportSurface
  \/ LoseConnection
=============================================================================
