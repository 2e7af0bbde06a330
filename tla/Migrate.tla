------------------------------ MODULE Migrate ------------------------------
(***************************************************************************)
(* The schema migrations of a deploy (scripts/migrate.sh over sql/*.sql).  *)
(*                                                                         *)
(* For each file in numeric order the script asks migration_history        *)
(* whether it was applied, sends its statements, which commit one by one,  *)
(* and records it: three connections, no transaction, no lock against a    *)
(* second deploy. It stops at the first error (set -e), and the deploy     *)
(* publishes the release only after it. Without a configuration, or with   *)
(* one that names no database user and password, it applies nothing and    *)
(* exits with 0, and the release is published all the same.                *)
(*                                                                         *)
(* sql/006 and sql/009 add columns without IF NOT EXISTS: their statements *)
(* fail the second time.                                                   *)
(***************************************************************************)
EXTENDS Naturals

CONSTANTS
  Files,       \* number of files of the release
  Statements,  \* Statements[f]: how many it holds
  Once,        \* the files whose statements fail when repeated
  Deploys,     \* the deploys that may run at once
  MaxRuns      \* bound: runs of the script

(* What a release looks like; the module that runs this one checks it.       *)
Parameters ==
  /\ Files \in Nat \ {0}
  /\ Statements \in [1..Files -> Nat \ {0}]
  /\ Once \subseteq 1..Files
  /\ MaxRuns \in Nat

VARIABLES
  done,      \* done[f]: statements of f the schema has seen
  history,   \* migration_history
  run,       \* run[d]: [at, file, stmt], the script of deploy d
  runs,      \* counts the runs
  published  \* how these files came to be published: migrated, skipped

vars == <<done, history, run, runs, published>>

Idle == [at |-> "idle", file |-> 1, stmt |-> 0]

Init ==
  /\ done = [f \in 1..Files |-> 0]
  /\ history = {}
  /\ run = [d \in Deploys |-> Idle]
  /\ runs = 0
  /\ published = {}

Goto(d, at, f, i) == run' = [run EXCEPT ![d] = [at |-> at, file |-> f, stmt |-> i]]

(* deploy:updated runs the script. Without a configuration, or credentials   *)
(* that can be read from it and are not the placeholder, it exits with 0.    *)
Start(d) ==
  /\ run[d].at = "idle" /\ runs < MaxRuns
  /\ runs' = runs + 1
  /\ Goto(d, "check", 1, 0) \/ Goto(d, "skip", 1, 0)
  /\ UNCHANGED <<done, history, published>>

(* Mutant of Stop: without set -e the script goes on with the next file.     *)
GoOn(d, f) == IF f = Files THEN Goto(d, "finish", f, 0) ELSE Goto(d, "check", f + 1, 0)

(* set -e, a killed script, a lost connection: the deploy ends here.         *)
Stop(d, f) == Goto(d, "idle", 1, 0)

(* The next file, or the end; a mutant that does not see the end.            *)
PastTheEnd(d, f) == Goto(d, "check", f + 1, 0)
Next1(d, f) == IF f = Files THEN Goto(d, "finish", f, 0) ELSE Goto(d, "check", f + 1, 0)

(* SELECT 1 FROM migration_history ... || echo 0: an error counts as "no".   *)
Check(d) ==
  /\ run[d].at = "check"
  /\ LET f == run[d].file IN
     \/ f \in history /\ Next1(d, f)
     \/ Goto(d, "apply", f, 0)
  /\ UNCHANGED <<done, history, runs, published>>

(* The next statement of mysql < file. *)
Apply(d) ==
  /\ run[d].at = "apply"
  /\ LET f == run[d].file
         i == run[d].stmt + 1 IN
     IF f \in Once /\ i <= done[f]
     THEN Stop(d, f) /\ done' = done
     ELSE /\ done' = [done EXCEPT ![f] = IF i > @ THEN i ELSE @]
          /\ Goto(d, IF i = Statements[f] THEN "record" ELSE "apply", f, i)
  /\ UNCHANGED <<history, runs, published>>

(* INSERT INTO migration_history: uk_filename refuses a second one.          *)
Record(d) ==
  /\ run[d].at = "record"
  /\ LET f == run[d].file IN
     IF f \in history THEN Stop(d, f) /\ history' = history
     ELSE Next1(d, f) /\ history' = history \union {f}
  /\ UNCHANGED <<done, runs, published>>

(* "migrate: done", or "skipping": to the deploy both are success, and       *)
(* deploy:publishing follows.                                                *)
Finish(d) ==
  /\ run[d].at \in {"finish", "skip"}
  /\ Goto(d, "idle", 1, 0)
  /\ published' = published \union
                    {IF run[d].at = "finish" THEN "migrated" ELSE "skipped"}
  /\ UNCHANGED <<done, history, runs>>

(* mysql fails, or the script dies, before or after the statement committed, *)
(* or a later step of the deploy fails before it publishes.                  *)
Break(d) ==
  /\ run[d].at # "idle"
  /\ Stop(d, run[d].file)
  /\ UNCHANGED <<done, history, runs, published>>

Next == \E d \in Deploys : Start(d) \/ Check(d) \/ Apply(d) \/ Record(d) \/ Finish(d) \/ Break(d)

Spec == Init /\ [][Next]_vars

-----------------------------------------------------------------------------
(* Properties.                                                               *)

Applied(f) == done[f] = Statements[f]

(* Types of the schema, the history and the scripts.                         *)
TypeOK ==
  /\ done \in [1..Files -> Nat] /\ \A f \in 1..Files : done[f] <= Statements[f]
  /\ history \subseteq 1..Files
  /\ run \in [Deploys -> [at : {"idle", "check", "apply", "record", "finish", "skip"},
                          file : 1..Files, stmt : Nat]]
  /\ runs \in Nat /\ published \subseteq {"migrated", "skipped"}

(* A file touches the schema only when every earlier one is there whole, a   *)
(* recorded file is there whole, and so is every file of a release that was  *)
(* published after its run had gone through them, not skipped them, however  *)
(* runs break off, overlap and start again (migrate.sh:53-67, deploy.rb:77). *)
MigratedInOrder ==
  /\ \A f, g \in 1..Files : done[f] > 0 /\ g < f => Applied(g)
  /\ \A f \in history : Applied(f)
  /\ "migrated" \in published => \A f \in 1..Files : Applied(f)

=============================================================================
