----------------------------- MODULE ScriptOrder -----------------------------
(***************************************************************************)
(* The order main's steps keep in every program of SpeechProgramTable,     *)
(* read off the scripts alone: what a thread or the callback needs is set  *)
(* up before it is started and torn down after it has ended, and main      *)
(* comes to the step that joins or tears down.  SpeechProgramsProofs shows *)
(* what follows when the threads run.                                      *)
(***************************************************************************)
EXTENDS SpeechPrograms

ScriptOf(p) == Programs[p].script

(* The positions of p's steps of one kind.                                 *)
StepsOf(p, what) == {i \in DOMAIN ScriptOf(p) : ScriptOf(p)[i].do = what}

(* A step whose failure goes to cleanup.                                   *)
Jumps(step) == \/ step.do = "check"
               \/ step.do = "setUp" /\ step.onFailure = "cleanup"
               \/ step.do \in {"start", "stop"} /\ step.onFailure # "ignored"

Removes(step, r) == step.do = "tearDown" /\ r \in step.on

(* What the steps before i have set up and not torn down again, if none    *)
(* has failed; the worker may free some of it.                             *)
Stands(p, i) ==
  {r \in Resources \ Programs[p].worker.frees :
     \E j \in 1..(i - 1) :
       /\ ScriptOf(p)[j].do = "setUp" /\ r \in ScriptOf(p)[j].on
       /\ \A k \in j..(i - 1) : ~Removes(ScriptOf(p)[k], r)}

Needs(t) == IF t = "reader" THEN "ring" ELSE "model"
FillsOf(p) == IF Programs[p].producer.fills = "ring" THEN "ring" ELSE "resampler"

(* From i on main comes to a step that joins t, or start() or stop() fails *)
(* on the way, and leaves alone what t needs.                              *)
JoinedAfter(p, t, i) ==
  \E j \in StepsOf(p, "join") :
    /\ j >= i /\ ScriptOf(p)[j].on = t
    /\ \A k \in i..j :
         /\ Jumps(ScriptOf(p)[k]) => p # "capture" /\ ScriptOf(p)[k].do \in {"start", "stop"}
         /\ ~Removes(ScriptOf(p)[k], Needs(t))

(* From i on main comes to a step that ends the callbacks, and leaves      *)
(* alone what the callback fills.                                          *)
QuietAfter(p, i) ==
  \E j \in DOMAIN ScriptOf(p) :
    /\ j >= i
    /\ ScriptOf(p)[j].do = "stop" \/ Removes(ScriptOf(p)[j], "device")
    /\ \A k \in i..(j - 1) :
         ~Jumps(ScriptOf(p)[k]) /\ ~Removes(ScriptOf(p)[k], FillsOf(p))

(* From i on main comes to a step that tears r down, whatever fails.       *)
RemovedAfter(p, r, i) ==
  \E j \in DOMAIN ScriptOf(p) :
    /\ j >= i /\ Removes(ScriptOf(p)[j], r)
    /\ j >= Programs[p].cleanup \/ \A k \in i..j : ~Jumps(ScriptOf(p)[k])

Spawns(p, t) == \E i \in StepsOf(p, "spawn") : ScriptOf(p)[i].on = t

(* A thread is spawned when what it needs stands, and main goes on to join *)
(* it.                                                                     *)
ASSUME SpawnAssumption ==
  \A p \in DOMAIN Programs : \A i \in StepsOf(p, "spawn") :
    /\ Needs(ScriptOf(p)[i].on) \in Stands(p, i)
    /\ JoinedAfter(p, ScriptOf(p)[i].on, i + 1)

(* The device is started once, before the cleanup, when what its callback  *)
(* fills stands, and main goes on to end its callbacks.                    *)
ASSUME StartAssumption ==
  \A p \in DOMAIN Programs : \A i \in StepsOf(p, "start") :
    /\ i < Programs[p].cleanup
    /\ \A j \in StepsOf(p, "start") : i = j
    /\ FillsOf(p) \in Stands(p, i)
    /\ QuietAfter(p, i + 1)

(* A read thread that does not look at m_exit after its wait belongs to a  *)
(* program without keys, where only a main whose device runs sets m_exit.  *)
ASSUME ExitAssumption ==
  \A p \in DOMAIN Programs : Spawns(p, "reader") /\ ~Programs[p].reader.testsExit =>
    /\ ~HasKeys(p)
    /\ \A i \in StepsOf(p, "start") : Jumps(ScriptOf(p)[i])
    /\ \A i \in StepsOf(p, "tellExit") :
         i < Programs[p].cleanup /\ \E j \in StepsOf(p, "start") : j < i

(* What is set up, or left by a set-up that fails, is torn down whatever   *)
(* fails, but for what the program forgets; a worker makes results and     *)
(* streams, frees only those, and leaves those that the program forgets.   *)
ASSUME RemovalAssumption ==
  \A p \in DOMAIN Programs :
    /\ \A i \in StepsOf(p, "setUp") :
         /\ \A r \in ScriptOf(p)[i].on \ Forgotten(p) : RemovedAfter(p, r, i + 1)
         /\ \A f \in ScriptOf(p)[i].fails : f.leaves \subseteq Forgotten(p)
    /\ Programs[p].worker.makes \subseteq Forgotten(p)
    /\ Programs[p].worker.frees \subseteq {"result", "stream"}

(* Only three programs tear down without looking at a flag, and then what  *)
(* stands: poc7 on its one way, the others the parts of an audio manager.  *)
(* A start() or stop() that fails goes to the cleanup from where all that  *)
(* stands there stands already.                                            *)
ASSUME BlindAssumption ==
  \A p \in DOMAIN Programs :
    /\ \A i \in StepsOf(p, "tearDown") : ScriptOf(p)[i].always =>
         /\ p \in {"poc1", "poc2", "poc7"} /\ ScriptOf(p)[i].on \subseteq Stands(p, i)
         /\ IF p = "poc7" THEN i < Programs[p].cleanup
            ELSE ScriptOf(p)[i].on \subseteq {"ring", "context", "device"}
    /\ \A i \in StepsOf(p, "start") \union StepsOf(p, "stop") :
         Jumps(ScriptOf(p)[i]) => Stands(p, Programs[p].cleanup) \subseteq Stands(p, i)

(* A flag outlives what it stands for only in poc4, and only the capture   *)
(* device rolls back what is not there; what may be missing without anyone *)
(* looking is none of the ring and the model.                              *)
ASSUME FlagAssumption ==
  \A p \in DOMAIN Programs : \A i \in StepsOf(p, "setUp") :
    /\ \A f \in ScriptOf(p)[i].fails :
         /\ f.promises \subseteq (IF p = "poc4" THEN {"ring"} ELSE {})
         /\ f.misuses \subseteq (IF p = "capture"
                                 THEN {"ring", "context", "device", "resampler"} ELSE {})
    /\ ScriptOf(p)[i].onFailure = "ignored" =>
         ScriptOf(p)[i].on \subseteq {"file", "resampler", "stream"}
=============================================================================
