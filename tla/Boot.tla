-------------------------------- MODULE Boot --------------------------------
(***************************************************************************)
(* The start of the program: main (source/main.c), then server_task up to  *)
(* its main loop (source/web_server.c 1793-1887).  Each part may fail to   *)
(* start; the code stops the firmware for some parts, tries the button     *)
(* once more, and goes on without the others.  What the attempts to connect*)
(* do is Provisioning's: here each of them succeeds or not.                *)
(***************************************************************************)
EXTENDS Integers

CONSTANT MaxNetworks   \* WIFI_STORE_MAX_NETWORKS

ASSUME NetworksAssumption == MaxNetworks \in Nat

VARIABLES
    nextCall,
    interrupts,      \* __enable_irq
    broken,          \* the parts whose start has failed for good
    displayReady,
    initialized,     \* lin_ctx.initialized
    buttonTried,     \* provisioning_button_init has tried once
    callback,        \* the callback of the button is registered
    provisioning_button_enabled, provisioning_button_irq_enabled,
    irq,             \* provisioning_button_irq_pressed
    s_inited,        \* the flash driver of the store
    known_count, attempt,  \* the stored networks, and the one that is tried
    connected,
    mode,            \* what is served: "none", "station" or "provisioning"
    halted           \* an assertion has failed

buttonFlags == <<provisioning_button_enabled, provisioning_button_irq_enabled>>
partVars == <<displayReady, initialized, s_inited>>
buttonVars == <<buttonTried, callback, buttonFlags, irq>>
attemptVars == <<known_count, attempt, connected>>
bootVars == <<nextCall, interrupts, broken, partVars, buttonVars, attemptVars, mode, halted>>

BootInit ==
    /\ nextCall = "bsp"
    /\ interrupts = FALSE
    /\ broken = {}
    /\ displayReady = FALSE /\ initialized = FALSE /\ s_inited = FALSE
    /\ buttonTried = FALSE /\ callback = FALSE
    /\ provisioning_button_enabled = FALSE /\ provisioning_button_irq_enabled = FALSE
    /\ irq = FALSE
    /\ known_count = 0 /\ attempt = 0 /\ connected = FALSE
    /\ mode = "none"
    /\ halted = FALSE

Required == {"board", "lin", "wcm", "station server", "SoftAP"}
Optional == {"display", "button", "store"}

Call(place, next) == ~ halted /\ nextCall = place /\ nextCall' = next
Breaks(part) == broken' = broken \cup {part}

\* PRINT_AND_ASSERT and CHECK_RESULT.
Asserts(part) ==
    /\ Breaks(part)
    /\ halted' = TRUE

-----------------------------------------------------------------------------
(* main.                                                                   *)

BspInit ==
    /\ Call("bsp", "task")
    /\ \/ interrupts' = TRUE /\ UNCHANGED <<broken, halted>>
       \/ Asserts("board") /\ UNCHANGED interrupts
    /\ UNCHANGED <<partVars, buttonVars, attemptVars, mode>>

\* xTaskCreate and vTaskStartScheduler: the heap has room for the task.
StartScheduler ==
    /\ Call("task", "display")
    /\ UNCHANGED <<interrupts, broken, partVars, buttonVars, attemptVars, mode, halted>>

-----------------------------------------------------------------------------
(* server_task.                                                            *)

DisplayInit ==
    /\ Call("display", "lin")
    /\ \/ displayReady' = TRUE /\ UNCHANGED broken
       \/ Breaks("display") /\ UNCHANGED displayReady
    /\ UNCHANGED <<interrupts, initialized, s_inited, buttonVars, attemptVars, mode, halted>>

LinInit ==
    /\ Call("lin", "wcm")
    /\ \/ initialized' = TRUE /\ UNCHANGED <<broken, halted>>
       \/ Asserts("lin") /\ UNCHANGED initialized
    /\ UNCHANGED <<interrupts, displayReady, s_inited, buttonVars, attemptVars, mode>>

WcmInit ==
    /\ Call("wcm", "button")
    /\ UNCHANGED <<broken, halted>> \/ Asserts("wcm")
    /\ UNCHANGED <<interrupts, partVars, buttonVars, attemptVars, mode>>

\* provisioning_button_init: a first failure frees the pin and tries again.
ButtonSucceeds ==
    /\ Call("button", "store")
    /\ callback' = TRUE
    /\ provisioning_button_enabled' = TRUE /\ provisioning_button_irq_enabled' = TRUE
    /\ UNCHANGED <<interrupts, broken, partVars, buttonTried, irq, attemptVars, mode, halted>>

ButtonRetries ==
    /\ ~ buttonTried
    /\ Call("button", "button")
    /\ buttonTried' = TRUE
    /\ UNCHANGED <<interrupts, broken, partVars, callback, buttonFlags, irq,
                   attemptVars, mode, halted>>

\* Mutant: a button that does not work stops the firmware.
ButtonAsserts ==
    /\ buttonTried
    /\ Call("button", "store")
    /\ Asserts("button")
    /\ UNCHANGED <<interrupts, partVars, buttonVars, attemptVars, mode>>

\* Mutant: only the interrupt is given up.
ButtonFailsPolled ==
    /\ buttonTried
    /\ Call("button", "store")
    /\ Breaks("button")
    /\ provisioning_button_enabled' = TRUE /\ provisioning_button_irq_enabled' = FALSE
    /\ UNCHANGED <<interrupts, partVars, buttonTried, callback, irq, attemptVars, mode, halted>>

ButtonFails ==
    /\ buttonTried
    /\ Call("button", "store")
    /\ Breaks("button")
    /\ provisioning_button_enabled' = FALSE /\ provisioning_button_irq_enabled' = FALSE
    /\ UNCHANGED <<interrupts, partVars, buttonTried, callback, irq, attemptVars, mode, halted>>

\* The interrupt of the button, once its callback is registered.
Press ==
    /\ callback /\ interrupts /\ ~ halted /\ ~ irq
    /\ irq' = TRUE
    /\ UNCHANGED <<nextCall, interrupts, broken, partVars, buttonTried, callback,
                   buttonFlags, attemptVars, mode, halted>>

\* wifi_store_init: its result is ignored here, and each operation calls it again.
InitStore ==
    \/ s_inited /\ UNCHANGED <<s_inited, broken>>
    \/ ~ s_inited /\ s_inited' = TRUE /\ broken' = broken \ {"store"}
    \/ ~ s_inited /\ Breaks("store") /\ UNCHANGED s_inited

StoreInit ==
    /\ Call("store", "read")
    /\ InitStore
    /\ UNCHANGED <<interrupts, displayReady, initialized, buttonVars, attemptVars, mode, halted>>

\* Mutant: what the buffer held is taken for the networks of a failed read.
ReadKnownAnyway ==
    /\ Call("read", "attempt")
    /\ InitStore
    /\ known_count' \in 0 .. MaxNetworks
    /\ UNCHANGED <<interrupts, displayReady, initialized, buttonVars, attempt, connected, mode, halted>>

\* wifi_store_get_known_networks: an error counts as no known network.
ReadKnown ==
    /\ Call("read", "attempt")
    /\ InitStore
    /\ known_count' \in IF s_inited' THEN 0 .. MaxNetworks ELSE {0}
    /\ UNCHANGED <<interrupts, displayReady, initialized, buttonVars, attempt, connected, mode, halted>>

\* start_sta_mode polls the button before an attempt and between two: a press is
\* void while SoftAP runs, and lost when it comes between the load of the flag
\* (1716) and its clearing (1717).  A press after the last poll is kept.
Polled ==
    /\ irq' \in {irq, FALSE}
    /\ UNCHANGED <<buttonTried, callback, buttonFlags>>

\* start_sta_mode with the next known network.
AttemptFails ==
    /\ attempt < known_count
    /\ Call("attempt", "attempt")
    /\ Polled
    /\ attempt' = attempt + 1
    /\ UNCHANGED <<interrupts, broken, partVars, known_count, connected, mode, halted>>

\* A press during the attempts has started SoftAP: the attempt is aborted.
AttemptAborted ==
    /\ attempt < known_count /\ irq /\ provisioning_button_enabled /\ mode = "none"
    /\ Call("attempt", "attempt")
    /\ irq' = FALSE
    /\ attempt' = attempt + 1
    /\ \/ mode' = "provisioning" /\ UNCHANGED <<broken, halted>>
       \/ Asserts("SoftAP") /\ UNCHANGED mode
    /\ UNCHANGED <<interrupts, partVars, buttonTried, callback, buttonFlags,
                   known_count, connected>>

AttemptSucceeds ==
    /\ attempt < known_count
    /\ Call("attempt", "loop")
    /\ Polled
    /\ connected' = TRUE
    /\ \/ mode' = "station" /\ UNCHANGED <<broken, halted>>
       \/ Asserts("station server") /\ UNCHANGED mode
    /\ UNCHANGED <<interrupts, partVars, known_count, attempt>>

\* Mutant: with no known network at all nothing is served.
FallBackNotEmpty ==
    /\ attempt = known_count
    /\ Call("attempt", "loop")
    /\ \/ (mode = "provisioning" \/ known_count = 0) /\ UNCHANGED <<mode, broken, halted>>
       \/ mode = "none" /\ known_count > 0 /\ mode' = "provisioning" /\ UNCHANGED <<broken, halted>>
       \/ mode = "none" /\ known_count > 0 /\ Asserts("SoftAP") /\ UNCHANGED mode
    /\ UNCHANGED <<interrupts, partVars, buttonVars, attemptVars>>

\* No known network has connected: SoftAP, unless it runs already.
FallBack ==
    /\ attempt = known_count
    /\ Call("attempt", "loop")
    /\ \/ mode = "provisioning" /\ UNCHANGED <<mode, broken, halted>>
       \/ mode = "none" /\ mode' = "provisioning" /\ UNCHANGED <<broken, halted>>
       \/ mode = "none" /\ Asserts("SoftAP") /\ UNCHANGED mode
    /\ UNCHANGED <<interrupts, partVars, buttonVars, attemptVars>>

\* A failed assertion stops the firmware; the main loop is the other modules'.
Stopped == (halted \/ nextCall = "loop") /\ UNCHANGED bootVars

Start ==
    \/ BspInit \/ StartScheduler \/ DisplayInit \/ LinInit \/ WcmInit
    \/ ButtonSucceeds \/ ButtonRetries \/ ButtonFails
    \/ StoreInit \/ ReadKnown
    \/ AttemptFails \/ AttemptAborted \/ AttemptSucceeds \/ FallBack

BootNext == Start \/ Press \/ Stopped

BootSpec == BootInit /\ [][BootNext]_bootVars

\* server_task is scheduled, and none of its calls waits for ever.
BootFairSpec == BootSpec /\ WF_bootVars(Start)

-----------------------------------------------------------------------------
(* Properties.                                                             *)

BootType ==
    /\ nextCall \in {"bsp", "task", "display", "lin", "wcm", "button", "store", "read",
               "attempt", "loop"}
    /\ broken \subseteq Required \cup Optional
    /\ {interrupts, displayReady, initialized, s_inited, buttonTried, callback,
        provisioning_button_enabled, provisioning_button_irq_enabled, irq,
        connected, halted} \subseteq BOOLEAN
    /\ known_count \in 0 .. MaxNetworks /\ attempt \in 0 .. known_count
    /\ mode \in {"none", "station", "provisioning"}

\* The firmware stops exactly for the parts it cannot do without: the display,
\* the button and the store may be missing, each alone or all of them (the
\* assertions of main and server_task; 1516-1560; 1824-1838).
StopsForRequired == halted <=> broken \cap Required # {}

\* What is served rests on what has started: the pages call an initialized
\* actuator, and a network is tried only if the store could be read.
StartedBeforeUse ==
    /\ mode # "none" => interrupts /\ initialized
    /\ known_count > 0 => s_inited
    /\ mode = "station" => connected

\* The polling of the button (1738-1776) is never used: the interrupt is enabled
\* whenever the button is, and a press is not seen before its callback is there.
InterruptOnly ==
    /\ provisioning_button_enabled => provisioning_button_irq_enabled /\ callback
    /\ irq => interrupts /\ callback

\* The firmware stops exactly for the parts it cannot do without, nothing is used
\* before it has started, and a press counts only with its interrupt (main and
\* server_task).
StartSafe == BootType /\ StopsForRequired /\ StartedBeforeUse /\ InterruptOnly

\* Whatever fails among the optional parts and the attempts, the device comes to
\* serve one of its two modes, or a required part is broken.
ComesUp == <>(mode # "none" \/ broken \cap Required # {})
=============================================================================
