-------------------------- MODULE AdvancedSettings --------------------------
(***************************************************************************)
(* The control process's settings                                          *)
(* (src/server/control/AdvancedSettingsManager.cpp): twelve numbered       *)
(* values, the file they are loaded from and saved to, and the tests the   *)
(* "setting" command makes.                                                *)
(*                                                                         *)
(* A value is a word, a sequence of pieces of text; an int is the word     *)
(* that prints it.  IntOf gives the pieces that read as an int.            *)
(***************************************************************************)
EXTENDS Integers, Sequences

CONSTANTS
  IntOf,  (* a function from pieces of text to the ints they read as *)
  IPv4    (* the pieces that are IPv4 addresses                      *)

VARIABLES
  config,
  settingsMutex,  (* the thread that holds AdvancedSettingsManager::mutex *)
  root,           (* what SaveSettings will write                         *)
  file,           (* config.json: key -> value; no key if there is none   *)
  text            (* of that file: "whole", "none" since it was truncated, *)
                  (* or "part" after a write that failed                  *)

fileVars     == <<file, text>>
settingsVars == <<config, settingsMutex, root, fileVars>>

Settings == 0 .. 11

ControlServicePort == 1
LogLevel == 2
MaxLogBufferSize == 3
CommandPrompt == 9

StringSettings == {0, 4, 5, 6, 7, CommandPrompt}

Addresses == {0, 7}

Ports == {ControlServicePort, 8, 11}

Default ==
  [i \in Settings |->
    <<(<<"127.0.0.1", "8080", "0", "128", "postgres", "postgres", "password",
         "127.0.0.1", "5432", "> ", "3", "8083">>)[i + 1]>>]

\* The file's keys: setting i is saved under key i.  PortKey stands for the
\* key "port", which LoadSettings looks for, to read the control port under
\* its own key, and which SaveSettings never writes.
PortKey == 12

\* asInt() of a value that is not there.
Absent == <<"0">>

\* Mutant: the password too is looked for under another key.
LoadKeyMisspelt(i) == IF i \in {ControlServicePort, 6} THEN PortKey ELSE i

LoadKey(i) == IF i = ControlServicePort THEN PortKey ELSE i

LoadSettings(keys) ==
  [i \in Settings |->
    IF LoadKey(i) \notin DOMAIN keys THEN Default[i]
    ELSE IF i \in DOMAIN keys THEN keys[i] ELSE Absent]

TryPassInt(w) == Len(w) = 1 /\ w[1] \in DOMAIN IntOf

IsValidIPv4(w) == Len(w) = 1 /\ w[1] \in IPv4

\* The message of ProcessLine for a value it does not take, by setting.
InRange(i, n) ==
  /\ i \in Ports => n \in 1 .. 65535
  /\ i \in {3, 10} => n >= 0
  /\ i = LogLevel => n \in 0 .. 4

\* ProcessLine checks no more than this before SetSetting.
Accepts(i, w) ==
  IF i \in Addresses THEN IsValidIPv4(w)
  ELSE i \in 4 .. 6 \/ (TryPassInt(w) /\ InRange(i, IntOf[w[1]]))

\* The variant ProcessLine passes for setting i.
PassesString(i) == i \in Addresses \cup (4 .. 6)

\* std::get_if finds no pointer of the other type: nothing is assigned.
SetSetting(i, w) ==
  config' = IF PassesString(i) <=> i \in StringSettings
            THEN [config EXCEPT ![i] = w]
            ELSE config
==============================================================================
