--------------------------- MODULE SettingsHistory ---------------------------
(***************************************************************************)
(* What the configuration directory promises to whoever reads it, with any *)
(* number of writers, failures and power losses.  Nothing is promised of   *)
(* which update lasts.  But every content a reader finds in a file was     *)
(* found there before, or differs from one that was in a single setting    *)
(* somebody asked for; and a file that cannot be read is left alone.       *)
(***************************************************************************)
CONSTANTS Files,
          FileOf,     \* FileOf[k]: the file of setting k
          Default,    \* Default[k]: its value in a new directory
          Missing,    \* the value of a setting that is not there
          NoKey,      \* an edit without precondition
          Edits       \* what may be asked for: [key, value, needs]

VARIABLES shown,      \* shown[f]: the settings a reader finds in file f
          readable,   \* readable[f]: f can be read at all
          seen        \* seen[f]: what has been found in f so far

hvars == <<shown, readable, seen>>

KeysIn == [f \in Files |-> {k \in DOMAIN FileOf : FileOf[k] = f}]

Init ==
    /\ shown = [f \in Files |-> [k \in KeysIn[f] |-> Default[k]]]
    /\ readable \in [Files -> BOOLEAN]
    /\ seen = [f \in Files |-> {shown[f]}]

\* The setting an edit presupposes (an environment that is selected, an alias
\* that is deleted) has been there.
Met(e) == e.needs = NoKey \/ \E content \in seen[FileOf[e.needs]] : content[e.needs] # Missing

\* One setting changes, in the present content or in an older one, which
\* undoes what was written since.
Publish(f) ==
    /\ readable[f]
    /\ \E old \in seen[f], e \in {d \in Edits : FileOf[d.key] = f} :
        Met(e) /\ shown' = [shown EXCEPT ![f] = [old EXCEPT ![e.key] = e.value]]
    /\ seen' = [seen EXCEPT ![f] = @ \cup {shown'[f]}]
    /\ UNCHANGED readable

\* A writer with an old snapshot, or a power loss, brings older contents back.
GoBack ==
    /\ DOMAIN shown' = Files
    /\ \A f \in Files : shown'[f] \in seen[f]
    /\ UNCHANGED <<readable, seen>>

Next == GoBack \/ \E f \in Files : Publish(f)

Spec == Init /\ [][Next]_hvars
=============================================================================
