------------------------------ MODULE Startup ------------------------------
(***************************************************************************)
(* `aiter-server init` and `aiter-server run` (aiter-server/src/main.rs)   *)
(* around one configuration file (config.rs), which the operator edits and *)
(* removes as well.                                                        *)
(*                                                                         *)
(* init creates the file and then fills it: another init, a run or the end *)
(* of the process may come between.  It holds on to the file it created;   *)
(* after the operator has put another in its place it writes to a file     *)
(* nobody can open.  run reads the file once, and the server answers from  *)
(* what it read until it stops.                                            *)
(***************************************************************************)
EXTENDS Config

CONSTANTS
  Inits,       \* processes running `aiter-server init`
  Envs,        \* environments `aiter-server run` is started in
  Edits,       \* what the operator may write: sequences of lines
  Operator,    \* the operator, as the author of a file
  Off          \* no server is running

VARIABLES
  file,        \* the file at config_path()
  author,      \* who created it
  inits,       \* how far each init has got
  server       \* the server: what it was started with, and what it made of it

vars == <<file, author, inits, server>>

ASSUME OperatorAssumption == Operator \notin Inits

Texts == {Text(lines) : lines \in Edits}
Files == {NoFile, Text(Template)} \cup Texts \cup TornTemplates

\* Settings that were loaded are not None.
ASSUME SettingsAssumption ==
  \A env \in Envs, text \in Files \cup {Unreadable} : Load(env, text).razorpay # None
-----------------------------------------------------------------------------
(* write_template                                                          *)

\* Mutant: an existing file is truncated.
CreateAnyway(p) ==
  /\ inits[p] = "idle"
  /\ file' = Text(<<>>) /\ author' = p
  /\ inits' = [inits EXCEPT ![p] = "created"]
  /\ UNCHANGED server

\* create_new: one process alone creates the file.
Create(p) ==
  /\ inits[p] = "idle"
  /\ file = NoFile
  /\ file' = Text(<<>>) /\ author' = p
  /\ inits' = [inits EXCEPT ![p] = "created"]
  /\ UNCHANGED server

\* AlreadyExists, or any other error: exit code 1.
Refuse(p) ==
  /\ inits[p] = "idle"
  /\ inits' = [inits EXCEPT ![p] = "failed"]
  /\ UNCHANGED <<file, author, server>>

Write(p, text) ==
  /\ inits[p] = "created"
  /\ file' = IF author = p THEN text ELSE file

\* write_all needs more than one write.
WriteSome(p, text) ==
  /\ Write(p, text)
  /\ UNCHANGED <<author, inits, server>>

\* Success is only reported after the last write.
WriteRest(p) ==
  /\ Write(p, Text(Template))
  /\ inits' = [inits EXCEPT ![p] = "wrote"]
  /\ UNCHANGED <<author, server>>

\* A write fails, or the process ends: nothing removes the file.
Abandon(p) ==
  /\ inits[p] = "created"
  /\ inits' = [inits EXCEPT ![p] = "failed"]
  /\ UNCHANGED <<file, author, server>>

Again(p) ==
  /\ inits[p] \in {"wrote", "failed"}
  /\ inits' = [inits EXCEPT ![p] = "idle"]
  /\ UNCHANGED <<file, author, server>>

InitCommand(p) ==
  \/ Create(p) \/ Refuse(p) \/ WriteRest(p) \/ Abandon(p) \/ Again(p)
  \/ \E text \in TornTemplates : WriteSome(p, text)
-----------------------------------------------------------------------------
(* The operator                                                            *)

\* An editor saves a new file under the path, so that an init which still holds
\* the file it created writes to the old one.  An editor that saves in place,
\* between create_new and write_all, would share the file with that init and
\* lose its text to it; this is left out.
Replace(text) ==
  /\ file' = text /\ author' = Operator
  /\ UNCHANGED <<inits, server>>

Edit   == \E text \in Texts : Replace(text)
Unlink == Replace(NoFile)
-----------------------------------------------------------------------------
(* run                                                                     *)

\* Configuration errors and a port that cannot be bound: exit code 1.
RunFails == server = Off /\ UNCHANGED vars

Run(env) ==
  /\ server = Off
  /\ Loads(env, file)
  /\ server' = [env |-> env, read |-> file, from |-> author,
                config |-> Load(env, file)]
  /\ UNCHANGED <<file, author, inits>>

\* The listener fails or the process ends.
Stop ==
  /\ server' = Off
  /\ UNCHANGED <<file, author, inits>>

\* What a payment link or a webhook is handled with.
Payments == ForState(server.config.razorpay, server.env)
-----------------------------------------------------------------------------
Init ==
  /\ file \in {NoFile, Unreadable} \cup Texts
  /\ author = Operator
  /\ inits = [p \in Inits |-> "idle"]
  /\ server = Off

Next ==
  \/ \E p \in Inits : InitCommand(p)
  \/ Edit \/ Unlink
  \/ \E env \in Envs : Run(env)
  \/ RunFails
  \/ server # Off /\ Stop

Spec == Init /\ [][Next]_vars
-----------------------------------------------------------------------------
(* Properties                                                              *)

\* Every variable stays in its type.
TypeOK ==
  /\ file \in Files
  /\ author \in Inits \cup {Operator}
  /\ inits \in [Inits -> {"idle", "created", "wrote", "failed"}]
  /\ server = Off \/ /\ server.read \in Files
                     /\ Loads(server.env, server.read)
                     /\ server.config = Load(server.env, server.read)

\* config.rs, write_template: "Refuses to overwrite an existing file (it may
\* hold real secrets)".  Whatever a number of inits do at once, a file of the
\* operator's is changed by the operator only, and a file of one init not by
\* another; for an operator who does not edit in place the file an init is
\* still writing (see Replace).
NeverClobbers ==
  [][file' # file /\ file # NoFile =>
       \/ author' = Operator
       \/ author \in Inits /\ author' = author /\ inits[author] = "created"]_vars

\* A server answers its payment calls, and listens, as one started in the
\* same environment without a file.
AsWithoutFile ==
  LET config == Load(server.env, NoFile)
  IN  /\ server.config.port = config.port
      /\ Payments = ForState(config.razorpay, server.env)

\* config.rs, template_contents: a template "parses and resolves identically
\* to a no-file run".  That holds for a file init has reported as written, in
\* every environment, and as long as nothing of it is written; a server that
\* was started while it was being written, or after init was stopped halfway,
\* may listen on another port but never takes payments otherwise than without
\* a file: the calls fail for a mode that was cut off, or they go where they
\* would have gone.
TemplateIsNeutral ==
  /\ \A p \in Inits : inits[p] = "wrote" /\ author = p => file = Text(Template)
  /\ server # Off /\ server.from \in Inits =>
       /\ Payments \in {ConfigError, ForState(Load(server.env, NoFile).razorpay, server.env)}
       /\ server.read \in {Text(<<>>), Text(Template)} => AsWithoutFile

\* config.rs: "when no config file exists the resolved configuration is
\* identical to the pre-#34 env-only behavior".  Without a file a payment call
\* is handled as by a server that reads its environment when the call arrives,
\* for an environment that is Unicode.
AgreesWithLegacy ==
  server # Off /\ server.read = NoFile /\ (\A key \in KnownKeys : server.env[key] # NonUnicode)
    => Payments = ForState(None, server.env)
=============================================================================
