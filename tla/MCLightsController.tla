------------------------- MODULE MCLightsController -------------------------
EXTENDS LightsController

\* The shape of the lights.ini that is shipped, with the tokens that decide something.
Kit     == <<Header("STAGEKIT_CONFIG"), Token("DEFAULT_CONFIG", 5),
             Header("STAGEKIT_CONFIG_1"), Token("ENABLE_FOG", 1)>>
Serial  == <<Comment, Header("SERIAL_INTERFACE"), Token("SURPRESS_WARNINGS", 1)>>
Silence(n) == <<Header("NO_SERIAL_DATA"), Token("NO_SERIAL_DATA_SECONDS", n)>>
Dmx(e)  == <<Header("DMXIFIED"), Token("ENABLED", e), Token("QLCPLUS_SEND_SLEEP_TIME_MS", 5)>>
Strip(e, amount, default) ==
    <<Header("LEDS"), Token("ENABLED", e), Token("LED_AMOUNT", amount),
      Token("INI_AMOUNT", 1), Token("INI_DEFAULT", default)>>
Start   == <<Header("STARTUP"), Token("FLASH_RGB", 5), Token("FLASH_AMOUNT", 0)>>
Rb3e(e, ip) == <<Header("RB3E"), Token("ENABLED", e), Token("SOURCE_IP", ip)>>
Net(e)  == <<Header("NETWORK"), Token("ENABLED", e)>>

\* A section in two pieces with others between, and before it a token of no section.
Pieces == <<Token("ENABLED", 1), Blank, Header("RB3E"), Token("SOURCE_IP", 5)>> \o Net(1)
            \o Kit \o <<Header("RB3E"), Token("ENABLED", 1)>> \o Serial

MCFiles == {
    <<>>,
    Kit \o Serial \o Silence(1) \o Dmx(1) \o Strip(1, 5, 1) \o Start \o Rb3e(0, 0) \o Net(0),
    Kit \o Serial \o Silence(0) \o Dmx(0) \o Strip(1, 5, 1) \o Start \o Rb3e(1, 0) \o Net(1),
    Kit \o Serial \o Dmx(1) \o Strip(1, 5, 5) \o Rb3e(1, 5),
    Pieces,
    Kit \o Net(1) \o Dmx(0),                            \* no SERIAL_INTERFACE
    Kit \o Serial \o Strip(1, 0, 1) \o Rb3e(1, Empty),
    Serial \o Rb3e(1, 1) \o <<Bad>>,
    Serial \o Dmx(1) \o <<Token("ENABLED", 0)>>,         \* a token twice
    Kit \o Serial \o Strip(0, 5, 1),                    \* NO_DATA and the rest missing
    Kit \o <<Header("SERIAL_INTERFACE"), Token("SURPRESS_WARNINGS", Empty)>>,
    Kit \o Serial \o Strip(1, 5, 1) \o <<Header("STARTUP")>>}

MCNames == {"STAGEKIT_CONFIG", "STAGEKIT_CONFIG_1", "SERIAL_INTERFACE", "NO_SERIAL_DATA", "DMXIFIED",
            "LEDS", "STARTUP", "RB3E", "NETWORK"}
MCTokens == {"DEFAULT_CONFIG", "ENABLE_FOG", "SURPRESS_WARNINGS", "NO_SERIAL_DATA_SECONDS", "ENABLED",
             "QLCPLUS_SEND_SLEEP_TIME_MS", "LED_AMOUNT", "INI_AMOUNT", "INI_DEFAULT", "FLASH_RGB",
             "FLASH_AMOUNT", "SOURCE_IP"}
MCValues == {0, 1, 5, Empty}

Game == <<192, 168, 1, 5>>
Stranger == <<192, 168, 1, 9>>

\* What inet_addr makes of a value; of no address it makes one of all ones.
MCIpOf == (0 :> AnyAddress) @@ (1 :> <<5, 1, 168, 192>>) @@ (5 :> Game)
            @@ (Empty :> <<255, 255, 255, 255>>)

Sent(from, magic, type, weights) ==
    [from |-> from, magic |-> magic, type |-> type, weights |-> weights]

MCForeign == {Sent(Game, TRUE, "stagekit", "fogOn"), Sent(Game, TRUE, "other", "none"),
              Sent(Stranger, TRUE, "stagekit", "allOff"), Sent(Game, FALSE, "stagekit", "lights")}
=============================================================================
