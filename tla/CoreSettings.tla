---------------------------- MODULE CoreSettings ----------------------------
(***************************************************************************)
(* src/config.cpp and src/module.cpp: the core settings, which exist twice:*)
(* in Source2Root, and as console variables of the server that anybody     *)
(* with the console may set.  The server tells Source2Root of a change     *)
(* after it was made, and one that is refused is taken back by queueing    *)
(* the old value, which the server applies in a later frame, behind the    *)
(* changes that are queued already.  While Source2Root is paused nobody    *)
(* tells it; it reads the variables when it is resumed.                    *)
(*                                                                         *)
(* The settings here are the two chat triggers, of which each has values   *)
(* that are refused, and which must differ.  The numeric settings are held *)
(* in range by the server and refuse nothing.  The server is external.     *)
(***************************************************************************)
EXTENDS Naturals, Sequences, SequencesExt

CONSTANTS Values, Wrong, \* values, and those a trigger cannot have
          Off,           \* the empty trigger
          Default,       \* of each setting
          MaxInputs      \* bound: changes and resumptions

Names == {"public", "silent"}

VARIABLES
    setting, \* Foundation::settings_
    convar,  \* the server's variables
    queue,   \* what queue_set has asked of the server
    asleep,  \* Source2Root is paused
    cut,     \* history: a variable could not be read or restored
    inputs   \* inputs so far

vars == <<setting, convar, queue, asleep, cut, inputs>>

\* SetField and Validate.
Valid(s) ==
    /\ \A n \in Names : s[n] \notin Wrong
    /\ s["public"] = Off \/ s["public"] # s["silent"]

\* SetSetting and SetSettings take what is valid and nothing else.
Takes(n, v) == Valid([setting EXCEPT ![n] = v])
TakesAll(s) == Valid(s)

\* What Read makes of a file: it is refused as a whole, for the defaults.
FromFile == {s \in [Names -> Values] : Valid(s)}

\* WriteConVar.
Write(n, v) == [name |-> n, value |-> v]

\* All settings are queued, one after the other.
WriteAll(s) == <<Write("public", s["public"]), Write("silent", s["silent"])>>

\* CreateCoreSettings creates the variables with the defaults and queues the settings.
Init ==
    /\ setting \in FromFile
    /\ convar = Default
    /\ queue = WriteAll(setting)
    /\ asleep = FALSE /\ cut = FALSE /\ inputs = 0

-----------------------------------------------------------------------------

\* What is queued to take back a change.
TakenBack_New(n, new) == new
TakenBack(n, new) == convar[n]

\* SettingChanged, after a variable got a new value: Set takes it all or not at all.
SettingChanged(n, v, pending) ==
    \/ /\ asleep
       /\ queue' = pending /\ UNCHANGED <<setting, cut>>
    \/ /\ ~asleep /\ Takes(n, v)
       /\ setting' = [setting EXCEPT ![n] = v]
       /\ queue' = pending /\ UNCHANGED cut
    \/ /\ ~asleep /\ ~Takes(n, v)
       /\ UNCHANGED setting
       /\ \/ queue' = Append(pending, Write(n, TakenBack(n, v))) /\ UNCHANGED cut
          \/ queue' = pending /\ cut' = TRUE

\* A variable is set.  Whether the server tells of a value that is not new is its own
\* affair.
SetVariable(n, v, pending) ==
    /\ convar' = [convar EXCEPT ![n] = v]
    /\ \/ SettingChanged(n, v, pending)
       \/ convar[n] = v /\ queue' = pending /\ UNCHANGED <<setting, cut>>

\* The server applies what was queued first.
Apply ==
    /\ queue # <<>>
    /\ SetVariable(Head(queue).name, Head(queue).value, Tail(queue))
    /\ UNCHANGED <<asleep, inputs>>

\* Somebody sets a variable on the console.
Type(n, v) ==
    /\ inputs < MaxInputs /\ inputs' = inputs + 1
    /\ SetVariable(n, v, queue)
    /\ UNCHANGED asleep

\* ConfigCommand: sr config checks the value against the settings of the moment.
ConfigCommand(n, v) ==
    /\ inputs < MaxInputs /\ inputs' = inputs + 1
    /\ ~asleep /\ Takes(n, v)
    /\ queue' = Append(queue, Write(n, v))
    /\ UNCHANGED <<setting, convar, asleep, cut>>

Sleep ==
    /\ ~asleep /\ asleep' = TRUE
    /\ UNCHANGED <<setting, convar, queue, cut, inputs>>

\* OnPluginResumed: SetAll takes all the variables or none, and then they are written
\* back.  A variable that cannot be read leaves the settings as they are.
Restored == WriteAll(setting)
OnPluginResumed ==
    /\ inputs < MaxInputs /\ inputs' = inputs + 1
    /\ asleep /\ asleep' = FALSE
    /\ \/ TakesAll(convar) /\ setting' = convar /\ UNCHANGED <<queue, cut>>
       \/ ~TakesAll(convar) /\ queue' = queue \o Restored /\ UNCHANGED <<setting, cut>>
       \/ cut' = TRUE /\ UNCHANGED <<setting, queue>>
    /\ UNCHANGED convar

Next ==
    \/ Apply \/ Sleep \/ OnPluginResumed
    \/ \E n \in Names, v \in Values : Type(n, v) \/ ConfigCommand(n, v)

Spec == Init /\ [][Next]_vars /\ WF_vars(Apply)

-----------------------------------------------------------------------------
(* Properties.                                                             *)

\* However changes, refusals and pauses interleave: the server comes to an end with
\* what was queued, although a change taken back is a change again, and its variables
\* are then the settings that Source2Root works with.  Excepted is a refused change that
\* could not be taken back: its variable stays wrong, later refusals put it back, and two
\* of them may replace one another for ever.
SettingsSettle ==
    <>[](cut \/ (queue = <<>> /\ (asleep \/ convar = setting)))
=============================================================================
