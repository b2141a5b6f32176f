----------------------------- MODULE MCPriority -----------------------------
(* The script engine with a memory of what every script was told in this   *)
(* cycle: that its write to a target is done, because it won or because    *)
(* the target had that value already (a duplicate, which is not recorded). *)
EXTENDS MCScriptEngine

VARIABLE claims   \* history: for each target the last such write of each script

NoClaims == [t \in Targets |-> {}]

Claimed(t, v) ==
  [claims EXCEPT ![t] = {c \in @ : c.by.script # current.script}
                          \cup {[by |-> current, value |-> v]}]

PriorityNext ==
  \/ \E t \in Targets, v \in Values :
       /\ Write(t, v)
       /\ claims' = IF Verdict(pending, current, t, v) = "lost" THEN claims
                    ELSE Claimed(t, v)
  \/ StartCycle /\ claims' = IF todo' = <<>> THEN claims ELSE NoClaims
  \/ /\ \/ RunNext \/ Begin \/ Skip \/ Other \/ HandleErrors \/ Finish \/ Command
        \/ \E s \in ScriptIds : Call(s)
     /\ UNCHANGED claims

PrioritySpec ==
  Init /\ claims = NoClaims /\ [][PriorityNext]_<<vars, claims>>

(* conflict.rs: "Higher priority scripts win conflicts", "Lower priority   *)
(* scripts are blocked from overwriting": whoever changes what another     *)
(* script was told it has, in the same cycle, has at least its priority.   *)
LowerIsBlocked ==
  [][\A t \in Targets :
       pending'[t] # pending[t] /\ pending'[t] # NoWrite =>
         \A c \in claims[t] :
           c.by.script # pending'[t].script /\ c.value # pending'[t].value
             => c.by.priority <= pending'[t].priority]_<<vars, claims>>
=============================================================================
