----------------------------- MODULE Settings ------------------------------
(***************************************************************************)
(* The constructor of controller/RpiLightsController: lights.ini is loaded *)
(* (IniFile) and its sections are read, one after the other, into members  *)
(* of the program.  A section that is missing leaves the defaults.         *)
(***************************************************************************)
EXTENDS IniFile, Integers

CONSTANT Empty      \* a value that is no number: nothing, or a word, behind the '='

ASSUME ValuesAssumption == Values \subseteq Nat \cup {Empty} /\ Empty \notin Nat

VARIABLES
    stage,      \* the section read next; before that "load", at the end "done" or "thrown"
    setting,    \* the members set from the file, by section and token
    listener,   \* m_rb3e_listener_enabled
    sender,     \* m_rb3e_sender_enabled
    dmxified,   \* m_dmxified_enabled
    strip       \* mLEDS: "none", "dark" (initialised, not enabled) or "up"

settingsVars == <<stage, setting, listener, sender, dmxified, strip>>

-----------------------------------------------------------------------------
KitConfigs == {"STAGEKIT_CONFIG_1", "STAGEKIT_CONFIG_2", "STAGEKIT_CONFIG_3", "STAGEKIT_CONFIG_4"}

After == [load |-> "SLEEP_TIMES", SLEEP_TIMES |-> "RB3E", RB3E |-> "NETWORK",
          NETWORK |-> "STAGEKIT_CONFIG", STAGEKIT_CONFIG |-> "DMXIFIED",
          DMXIFIED |-> "STAGEKIT_CONFIG_1", STAGEKIT_CONFIG_1 |-> "STAGEKIT_CONFIG_2",
          STAGEKIT_CONFIG_2 |-> "STAGEKIT_CONFIG_3", STAGEKIT_CONFIG_3 |-> "STAGEKIT_CONFIG_4",
          STAGEKIT_CONFIG_4 |-> "LEDS", LEDS |-> "strip", strip |-> "NO_DATA",
          NO_DATA |-> "NO_SERIAL_DATA", NO_SERIAL_DATA |-> "NO_EVENT_DATA",
          NO_EVENT_DATA |-> "STARTUP", STARTUP |-> "done"]

\* Tokens that become numbers (GetTokenValue; the colours, of which each part does).
Numbers(s) ==
    CASE s = "SLEEP_TIMES" -> {"IDLE", "STAGEKIT", "STROBE"}
      [] s = "RB3E" -> {"ENABLED", "LISTENING_PORT"}
      [] s = "NETWORK" -> {"ENABLED", "TARGET_PORT"}
      [] s = "STAGEKIT_CONFIG" -> {"DEFAULT_CONFIG", "BLINK_ON_START"}
      [] s = "DMXIFIED" -> {"QLCPLUS_CONNECT_SLEEP_TIME_MS", "QLCPLUS_SEND_SLEEP_TIME_MS",
                            "FILE_EXISTS_INPUT_SLEEP_TIME_MS"}
      [] s \in KitConfigs -> {"ENABLE_POD_LIGHTS", "ENABLE_STROBE", "ENABLE_FOG",
                              "FOG_MAX_INSTANCE_TIME_SECONDS", "FOG_MAX_TOTAL_TIME_SECONDS"}
      [] s = "LEDS" -> {"ENABLED", "LED_AMOUNT", "INI_AMOUNT", "INI_DEFAULT", "STROBE_ENABLED",
                        "STROBE_RATE_1_MS", "STROBE_RATE_2_MS", "STROBE_RATE_3_MS",
                        "STROBE_RATE_4_MS"}
      [] s = "NO_DATA" -> {"NO_DATA_SECONDS", "NO_DATA_RGB", "NO_DATA_BRIGHTNESS"}
      [] s = "NO_SERIAL_DATA" -> {"NO_SERIAL_DATA_SECONDS"}
      [] s = "NO_EVENT_DATA" -> {"IDLE_SECONDS"}
      [] s = "STARTUP" -> {"FLASH_RGB", "FLASH_AMOUNT", "FLASH_DELAY_MS", "FLASH_BRIGHTNESS"}

\* Tokens taken as they are (GetTokenString).
Texts(s) ==
    CASE s = "RB3E" -> {"SOURCE_IP"}
      [] s = "NETWORK" -> {"TARGET_IP"}
      [] s = "DMXIFIED" -> {"MAPPING_CONFIG", "QLCPLUS_WEBSOCKET_URL"}
      [] s = "LEDS" -> {"DEVICE"}
      [] OTHER -> {}

\* A number that is not in its section is 0; a text or a colour is empty.
Absent(s, t) == IF t \in Texts(s) \cup {"NO_DATA_RGB", "FLASH_RGB"} THEN Empty ELSE 0

Get(i, s, t) == Value(i, t, Absent(s, t))

\* std::stoi finds no number, and nothing catches what it throws.
Throws(i, s, toks) == \E t \in toks : Get(i, s, t) = Empty

\* A default configuration there is not becomes "chosen by the number of pods".
Clip(t, v) == IF t = "DEFAULT_CONFIG" /\ v > 4 THEN 0 ELSE v

Assign(i, s, toks) ==
    setting' = [p \in DOMAIN setting \cup {<<s, t>> : t \in toks} |->
                  IF p \in DOMAIN setting THEN setting[p] ELSE Clip(p[2], Get(i, s, p[2]))]

-----------------------------------------------------------------------------
SettingsInit ==
    /\ IniInit
    /\ stage = "load"
    /\ setting = [p \in {} |-> 0]
    /\ listener = FALSE /\ sender = FALSE /\ dmxified = FALSE /\ strip = "none"

\* When the file does not load that is reported and nothing more; whether DMXified is
\* enabled then depends on what was in the memory.
LoadFile ==
    /\ stage = "load"
    /\ \/ IniNext /\ UNCHANGED settingsVars
       \/ /\ load = "loaded"
          /\ stage' = After[stage]
          /\ UNCHANGED <<iniVars, setting, listener, sender, dmxified, strip>>
       \/ /\ load = "failed"
          /\ stage' = "done"
          /\ dmxified' \in BOOLEAN
          /\ UNCHANGED <<iniVars, setting, listener, sender, strip>>

ModesBoth(s, enabled) ==
    /\ listener' = IF s = "RB3E" THEN enabled ELSE listener
    /\ sender' = IF s = "NETWORK" THEN enabled ELSE sender
    /\ dmxified' = IF s = "DMXIFIED" THEN enabled ELSE dmxified

\* The three sections that decide where the program's input comes from and goes to.
Modes(s, enabled) ==
    /\ listener' = CASE s = "RB3E" -> enabled
                     [] s = "NETWORK" -> listener /\ ~enabled
                     [] OTHER -> listener
    /\ sender' = IF s = "NETWORK" THEN enabled ELSE sender
    /\ dmxified' = IF s = "DMXIFIED" THEN enabled ELSE dmxified

\* What is read of a section: of DMXIFIED, where the rest counts only when enabled,
\* ENABLED comes first.
Wanted(i, s) ==
    IF s # "DMXIFIED" THEN Numbers(s) \cup Texts(s)
    ELSE {"ENABLED"} \cup IF Get(i, s, "ENABLED") = 1 THEN Numbers(s) \cup Texts(s) ELSE {}

IsThereUnasked(s) == TRUE

\* What SetSection answers.
IsThere(s) == FindSection(s)

ReadSection ==
    /\ stage \in DOMAIN After \ {"load", "strip"}
    /\ IsThere(stage)
    /\ LET now == SetSection(stage)
           toks == Wanted(now, stage)
       IN /\ current' = now
          /\ IF Throws(now, stage, toks \ Texts(stage))
             THEN stage' = "thrown" /\ UNCHANGED <<setting, listener, sender, dmxified>>
             ELSE /\ stage' = After[stage]
                  /\ Assign(now, stage, toks)
                  /\ Modes(stage, Get(now, stage, "ENABLED") = 1)
    /\ UNCHANGED <<file, next, sections, load, strip>>

\* All that follows LEDS is inside the branch that found it.
SkipSection ==
    /\ stage \in DOMAIN After \ {"load", "strip"}
    /\ ~IsThere(stage)
    /\ stage' = IF stage = "LEDS" THEN "done" ELSE After[stage]
    /\ dmxified' = (stage # "DMXIFIED" /\ dmxified)
    /\ UNCHANGED <<iniVars, setting, listener, sender, strip>>

Leds(t) == setting[<<"LEDS", t>>]

\* The name of the strip's own file is taken from an array at INI_DEFAULT - 1, within
\* it or not.  A strip that does not come up ends the constructor.
OpenStrip ==
    /\ stage = "strip"
    /\ \E opened \in BOOLEAN, stray \in BOOLEAN :
         /\ stray => Leds("INI_DEFAULT") \notin 1..Leds("INI_AMOUNT")
         /\ strip' = IF stray \/ Leds("LED_AMOUNT") = 0 THEN "none"
                     ELSE IF Leds("ENABLED") = 1 /\ opened THEN "up" ELSE "dark"
         /\ stage' = IF stray THEN "thrown"
                     ELSE IF strip' = "none" \/ (Leds("ENABLED") = 1 /\ ~opened) THEN "done"
                     ELSE After[stage]
    /\ UNCHANGED <<iniVars, setting, listener, sender, dmxified>>

Construct == LoadFile \/ ReadSection \/ SkipSection \/ OpenStrip

-----------------------------------------------------------------------------
HasSection(s) == s = "" \/ \E n \in Read : file[n] = Header(s)

\* What a token was given under its own section, if anything.
Meant(s, t) ==
    IF \E n \in Read : Says(n, s, t)
    THEN Clip(t, file[CHOOSE n \in Read : Says(n, s, t)].value)
    ELSE Absent(s, t)

\* No setting is taken from another section than its own: not when that section is
\* missing, comes later in the file or is in pieces (the constructor's use of
\* SetSection, which leaves the last section current when it fails).
SettingsFromOwnSection ==
    \A p \in DOMAIN setting : HasSection(p[1]) /\ setting[p] = Meant(p[1], p[2])
=============================================================================
