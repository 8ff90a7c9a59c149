------------------------------ MODULE Startup -------------------------------
(***************************************************************************)
(* Start-up: app_main creates the objects of the kernel, installs the      *)
(* interrupt handlers, brings up the access point and the web server and   *)
(* creates the tasks, one after the other.  Meanwhile interrupts already   *)
(* fire, the event task of ESP-IDF already delivers events, browsers       *)
(* already ask for data and the tasks created so far already run.          *)
(*                                                                         *)
(* A call that app_main checks (ESP_ERROR_CHECK, configASSERT) restarts    *)
(* the chip when it fails; a failure of the others is logged at most.      *)
(***************************************************************************)
EXTENDS Naturals, FiniteSets, Sequences, SequencesExt

CONSTANTS
  Edges,   (* the pins on which edges come during start-up                   *)
  Fragile  (* the objects of the kernel whose creation may fail              *)

Pins == {"pir", "door", "vibration", "button1", "button2"}

KernelObjects == {"xEventQueue", "xDataQueue", "xActuatorQueue", "xPIRSemaphore",
                  "xDoorSemaphore", "xVibrationSemaphore", "xButton1Semaphore",
                  "xButton2Semaphore", "xSystemEventGroup", "xBrokerMutex",
                  "xTraceMutex", "xI2CMutex", "xActuatorMutex"}

ASSUME StartupAssumption == Edges \subseteq Pins /\ Fragile \subseteq KernelObjects

-----------------------------------------------------------------------------
(* The order of app_main, with the calls it consists of.                   *)

Interrupts == <<"pir", "door", "vibration", "button1", "button2">>

(* Mutant: a build without ScalabilityTask (ENABLE_SCALABILITY_TASK 0).    *)
TasksUnscaled == <<"EmergencyTask", "SensorTask", "SecurityTask", "SafetyTask",
                   "ActuatorTask", "MonitoringTask", "CommTask", "PerformanceTask",
                   "OledTask", "MqttBroker">>
Tasks == <<"EmergencyTask", "SensorTask", "SecurityTask", "SafetyTask", "ActuatorTask",
           "MonitoringTask", "CommTask", "ScalabilityTask", "PerformanceTask",
           "OledTask", "MqttBroker">>

SoftAp == <<"nvs_init", "netif", "event_loop", "wifi_init", "register_handler",
            "wifi_config", "wifi_start">>
WebServer == <<"client_mutex", "cleanup_task", "spiffs", "httpd">>

(* Mutants: the order before FIX-26, with the objects after the GPIO; the  *)
(* handler of the event registered when the access point has been started. *)
OrderBefore26 == <<"gpio">> \o Interrupts \o <<"adc", "rtc", "objects">> \o SoftAp
                   \o <<"wait_ap">> \o WebServer \o Tasks \o <<"watchdog", "blink">>
OrderRegisterLate == <<"objects", "gpio">> \o Interrupts
                       \o <<"adc", "rtc", "nvs_init", "netif", "event_loop", "wifi_init",
                            "wifi_config", "wifi_start", "register_handler", "wait_ap">>
                       \o WebServer \o Tasks \o <<"watchdog", "blink">>

(* "gpio" ends with gpio_install_isr_service, and then each handler is     *)
(* added.                                                                  *)
Order == <<"objects", "gpio">> \o Interrupts \o <<"adc", "rtc">> \o SoftAp
           \o <<"wait_ap">> \o WebServer \o Tasks \o <<"watchdog", "blink">>

Place(name) == CHOOSE i \in DOMAIN Order : Order[i] = name

(* The calls whose failure restarts the chip.                              *)
Checked == ToSet(SoftAp) \cup ToSet(Tasks)

(* The calls whose failure is tolerated.                                   *)
Tolerated == {"gpio", "rtc", "spiffs", "httpd", "cleanup_task", "client_mutex"}

SemaphoreOf(pin) ==
  CASE pin = "pir"       -> "xPIRSemaphore"
    [] pin = "door"      -> "xDoorSemaphore"
    [] pin = "vibration" -> "xVibrationSemaphore"
    [] pin = "button1"   -> "xButton1Semaphore"
    [] pin = "button2"   -> "xButton2Semaphore"

(* The objects configASSERT looks at when all have been created.           *)
(* Mutant: without the assert of the mutexes FIX-02 and FIX-03 brought.    *)
AssertedBefore02 == KernelObjects \ {"xI2CMutex", "xActuatorMutex"}
Asserted == KernelObjects

(* The tasks that send or receive events and set or clear their bits.      *)
EventTasks == {"SecurityTask", "SafetyTask", "EmergencyTask", "MonitoringTask",
               "ScalabilityTask"}

(* The tasks that hand an object to the kernel without a test for NULL,    *)
(* which asserts there.  Interrupt handlers, actuator_post, broker_publish *)
(* and the I2C helpers do test theirs, and so do both users of             *)
(* xClientMutex; nobody takes the semaphores of the buttons or             *)
(* xTraceMutex.                                                            *)
Users(object) ==
  CASE object \in {"xEventQueue", "xSystemEventGroup"} -> EventTasks
    [] object = "xDataQueue"          -> {"SensorTask", "SafetyTask", "MonitoringTask",
                                          "CommTask", "OledTask"}
    [] object \in {"xActuatorQueue", "xActuatorMutex"} -> {"ActuatorTask", "MonitoringTask"}
    [] object \in {"xPIRSemaphore", "xDoorSemaphore"}  -> {"SecurityTask"}
    [] object = "xVibrationSemaphore" -> {"ScalabilityTask"}
    [] object = "xBrokerMutex"        -> {"MqttBroker"}
    [] OTHER                          -> {}

(* The tasks that subscribe to the task watchdog.                          *)
Watched == {"SensorTask", "SecurityTask", "SafetyTask", "CommTask"}

(* The task that takes the semaphore of a pin; nobody takes the buttons'.  *)
TakerOf(pin) ==
  CASE pin \in {"pir", "door"} -> "SecurityTask"
    [] pin = "vibration"       -> "ScalabilityTask"
    [] OTHER                   -> "nobody"

-----------------------------------------------------------------------------
VARIABLES
  main,     (* how far app_main is in Order; 0: the chip is about to restart *)
  made,     (* the objects that exist                                        *)
  handlers, (* the pins whose interrupt handler is installed                 *)
  given,    (* the pins whose binary semaphore is given                      *)
  young,    (* less than 50 ms have passed: last_ms, 0, makes edges bounces  *)
  ap,       (* the access point: "off", "starting", "up"                     *)
  listening,(* wifi_ap_event_handler is registered                           *)
  apBit,    (* EVENT_AP_STARTED                                              *)
  created,  (* the tasks that exist                                          *)
  begun,    (* the tasks that have run                                       *)
  dog,      (* the task watchdog: [on, seconds, tasks]                       *)
  owed,     (* history: accepted edges whose semaphore was not taken yet     *)
  failed    (* history: the calls that have failed since the start           *)

vars == <<main, made, handlers, given, young, ap, listening, apBit, created, begun,
          dog, owed, failed>>

(* Mutant: CONFIG_ESP_TASK_WDT_INIT is off.                                *)
DogAbsent == [on |-> FALSE, seconds |-> 0, tasks |-> {}]

(* sdkconfig has ESP-IDF start the task watchdog before app_main.          *)
DogAtBoot == [on |-> TRUE, seconds |-> 5, tasks |-> {}]

Init ==
  /\ main = 1 /\ made = {} /\ handlers = {} /\ given = {} /\ young = TRUE
  /\ ap = "off" /\ listening = FALSE /\ apBit = FALSE
  /\ created = {} /\ begun = {}
  /\ dog = DogAtBoot
  /\ owed = {} /\ failed = {}

-----------------------------------------------------------------------------
(* app_main                                                                *)

At(name) == main \in DOMAIN Order /\ Order[main] = name
Proceed == main' = main + 1

(* Any of the creations fails or not; the asserts after the last of them   *)
(* stop the chip when one they look at is missing.                         *)
CreateObjects ==
  /\ At("objects")
  /\ \E missing \in SUBSET Fragile :
       /\ made' = made \cup (KernelObjects \ missing)
       /\ \/ Asserted \cap missing = {} /\ Proceed /\ UNCHANGED failed
          \/ Asserted \cap missing # {} /\ main' = 0 /\ failed' = failed \cup {"objects"}
  /\ UNCHANGED <<handlers, given, young, ap, listening, apBit, created, begun, dog, owed>>

(* gpio_isr_handler_add: from here on the pin interrupts.                  *)
AddHandler(pin) ==
  /\ At(pin) /\ Proceed
  /\ handlers' = handlers \cup {pin}
  /\ UNCHANGED <<made, given, young, ap, listening, apBit, created, begun, dog, owed, failed>>

(* Calls whose success changes nothing that others look at.                *)
Pass(name) ==
  /\ At(name) /\ Proceed
  /\ UNCHANGED <<made, handlers, given, young, ap, listening, apBit, created, begun, dog,
                 owed, failed>>

ConfigureGpio == Pass("gpio")
ConfigureAdc  == Pass("adc")
ProbeRtc      == Pass("rtc")
InitNvs       == Pass("nvs_init")
InitNetwork   == Pass("netif") \/ Pass("event_loop") \/ Pass("wifi_init")
ConfigureWifi == Pass("wifi_config")
MountSpiffs   == Pass("spiffs")
Blink         == Pass("blink")

(* nvs_flash_init finds the partition full or of another version: it is    *)
(* erased and initialised again, which fails or not.                       *)
NvsErase ==
  /\ At("nvs_init")
  /\ "nvs_full" \notin failed /\ failed' = failed \cup {"nvs_full"}
  /\ UNCHANGED <<main, made, handlers, given, young, ap, listening, apBit, created, begun,
                 dog, owed>>

RegisterHandler ==
  /\ At("register_handler") /\ Proceed
  /\ listening' = TRUE
  /\ UNCHANGED <<made, handlers, given, young, ap, apBit, created, begun, dog, owed, failed>>

WifiStart ==
  /\ At("wifi_start") /\ Proceed
  /\ ap' = "starting"
  /\ UNCHANGED <<made, handlers, given, young, listening, apBit, created, begun, dog,
                 owed, failed>>

WaitAp ==
  /\ At("wait_ap") /\ apBit /\ Proceed
  /\ UNCHANGED <<made, handlers, given, young, ap, listening, apBit, created, begun, dog,
                 owed, failed>>

MakeClientMutex ==
  /\ At("client_mutex") /\ Proceed
  /\ made' = made \cup {"xClientMutex"}
  /\ UNCHANGED <<handlers, given, young, ap, listening, apBit, created, begun, dog,
                 owed, failed>>

TaskNames == ToSet(Tasks) \cup {"CleanupTask", "httpd"}
CallFor(task) == CASE task = "CleanupTask" -> "cleanup_task" [] OTHER -> task

CreateTask(task) ==
  /\ At(CallFor(task)) /\ Proceed
  /\ created' = created \cup {task}
  /\ UNCHANGED <<made, handlers, given, young, ap, listening, apBit, begun, dog, owed, failed>>

(* init_watchdog: a watchdog that runs keeps its own timeout.              *)
InitWatchdog ==
  /\ At("watchdog") /\ Proceed
  /\ dog' = IF dog.on THEN dog ELSE [on |-> TRUE, seconds |-> 30, tasks |-> {}]
  /\ UNCHANGED <<made, handlers, given, young, ap, listening, apBit, created, begun,
                 owed, failed>>

(* A checked call fails: abort.                                            *)
FailChecked ==
  /\ \E name \in Checked : At(name) /\ failed' = failed \cup {name}
  /\ main' = 0
  /\ UNCHANGED <<made, handlers, given, young, ap, listening, apBit, created, begun, dog,
                 owed>>

(* A failure that is tolerated.  Without gpio_install_isr_service no       *)
(* handler can be added; without its mutex, or without the server itself,  *)
(* isms_web_server_init returns early.                                     *)
AfterFailure(name) ==
  CASE name = "gpio"                      -> Place("adc")
    [] name \in {"client_mutex", "httpd"} -> 1 + Place("httpd")
    [] OTHER                              -> main + 1

FailTolerated ==
  /\ \E name \in Tolerated \ Checked :
       /\ At(name)
       /\ failed' = failed \cup {name} /\ main' = AfterFailure(name)
  /\ UNCHANGED <<made, handlers, given, young, ap, listening, apBit, created, begun, dog, owed>>

(* Every task outranks app_main, whose priority is 1: it goes on when the  *)
(* tasks it has created have run, but for one that is about to run on the  *)
(* other core.                                                             *)
Main ==
  /\ Cardinality(created \ begun) <= 1
  /\ \/ CreateObjects \/ \E pin \in Pins : AddHandler(pin)
     \/ ConfigureGpio \/ ConfigureAdc \/ ProbeRtc
     \/ InitNvs \/ NvsErase \/ InitNetwork \/ RegisterHandler \/ ConfigureWifi
     \/ WifiStart \/ WaitAp
     \/ MakeClientMutex \/ MountSpiffs \/ \E task \in TaskNames : CreateTask(task)
     \/ InitWatchdog \/ Blink \/ FailChecked \/ FailTolerated

-----------------------------------------------------------------------------
(* The rest of the system, as far as it runs.                              *)

Alive == main # 0

(* Mutant: the pins interrupt as soon as they are configured.              *)
EdgeAnyPin(pin) ==
  /\ Alive /\ ~young
  /\ given' = given \cup {p \in {pin} : SemaphoreOf(p) \in made}
  /\ owed' = owed \cup {pin}
  /\ UNCHANGED <<main, made, handlers, young, ap, listening, apBit, created, begun, dog, failed>>

(* An edge: the handler returns when its semaphore does not exist, and in  *)
(* the first 50 ms it takes the edge for a bounce.                         *)
Edge(pin) ==
  /\ Alive /\ pin \in handlers /\ ~young
  /\ given' = given \cup {p \in {pin} : SemaphoreOf(p) \in made}
  /\ owed' = owed \cup {pin}
  /\ UNCHANGED <<main, made, handlers, young, ap, listening, apBit, created, begun, dog, failed>>

Age ==
  /\ Alive /\ young /\ young' = FALSE
  /\ UNCHANGED <<main, made, handlers, given, ap, listening, apBit, created, begun, dog,
                 owed, failed>>

(* WIFI_EVENT_AP_START reaches the handler if it is registered by then.    *)
ApStarted ==
  /\ Alive /\ ap = "starting" /\ ap' = "up"
  /\ apBit' = listening
  /\ UNCHANGED <<main, made, handlers, given, young, listening, created, begun, dog,
                 owed, failed>>

(* A task runs for the first time; some subscribe to the watchdog, which   *)
(* fails while there is none.                                              *)
Begin(task) ==
  /\ Alive /\ task \in created \ begun
  /\ begun' = begun \cup {task}
  /\ dog' = [dog EXCEPT !.tasks = @ \cup {t \in {task} \cap Watched : dog.on}]
  /\ UNCHANGED <<main, made, handlers, given, young, ap, listening, apBit, created,
                 owed, failed>>

TakeEdge(pin) ==
  /\ Alive /\ pin \in given /\ TakerOf(pin) \in begun
  /\ given' = given \ {pin} /\ owed' = owed \ {pin}
  /\ UNCHANGED <<main, made, handlers, young, ap, listening, apBit, created, begun, dog,
                 failed>>

Restart ==
  /\ main = 0
  /\ main' = 1 /\ made' = {} /\ handlers' = {} /\ given' = {} /\ young' = TRUE
  /\ ap' = "off" /\ listening' = FALSE /\ apBit' = FALSE
  /\ created' = {} /\ begun' = {} /\ dog' = DogAtBoot /\ owed' = {} /\ failed' = {}

(* The start is over and the tasks run on.                                 *)
RunOn == main = Len(Order) + 1 /\ UNCHANGED vars

Next ==
  \/ Main \/ RunOn
  \/ \E pin \in Edges : Edge(pin) \/ TakeEdge(pin)
  \/ Age \/ ApStarted
  \/ \E task \in TaskNames : Begin(task)
  \/ Restart

(* app_main goes on where it is not waiting, whether its calls succeed or  *)
(* fail; the event task and the tasks that can run do run.                 *)
Fairness ==
  /\ WF_vars(Main) /\ WF_vars(Restart)
  /\ WF_vars(ApStarted)
  /\ \A task \in TaskNames : WF_vars(Begin(task))
  /\ \A pin \in Edges : WF_vars(TakeEdge(pin))

Spec == Init /\ [][Next]_vars /\ Fairness

-----------------------------------------------------------------------------
(* Properties                                                              *)

Done == main = Len(Order) + 1

TypeOK ==
  /\ main \in 0..(Len(Order) + 1)
  /\ made \subseteq KernelObjects \cup {"xClientMutex"}
  /\ handlers \subseteq Pins /\ given \subseteq handlers /\ owed \subseteq handlers
  /\ young \in BOOLEAN /\ ap \in {"off", "starting", "up"}
  /\ listening \in BOOLEAN /\ apBit \in BOOLEAN
  /\ created \subseteq TaskNames /\ begun \subseteq created
  /\ dog \in [on : BOOLEAN, seconds : {0, 5, 30}, tasks : SUBSET Watched]
  /\ failed \subseteq Checked \cup Tolerated \cup {"objects", "nvs_full"}

(* Whichever objects create_rtos_objects could not create, no task runs    *)
(* that uses one of them without a test, and no bit of a missing group is  *)
(* set: the chip stops at the start, not at the first alarm that needs the *)
(* object.  What is used untested, in the tasks, is among what is asserted *)
(* in create_rtos_objects.                                                 *)
NothingUsesTheMissing ==
  /\ \A object \in (KernelObjects \cup {"xClientMutex"}) \ made : Users(object) \cap begun = {}
  /\ apBit => "xSystemEventGroup" \in made

(* FIX-26 and FIX-27: an edge that an installed handler accepts while the  *)
(* system is starting is kept in its semaphore until the task that takes   *)
(* it has come to life.                                                    *)
EarlyEdgeIsKept == owed \subseteq given

(* An early edge of a sensor wakes its task in the end, unless the start   *)
(* fails.                                                                  *)
EarlyEdgeIsTaken ==
  \A pin \in Edges \ {"button1", "button2"} : (pin \in owed) ~> (pin \notin owed)

(* The start always ends: app_main is never left waiting for the access    *)
(* point, and what is tolerated (the clock, the display, the files, the    *)
(* server) never keeps the alarm tasks from being created.                 *)
StartUpEnds ==
  /\ (main = 1) ~> (Done \/ main = 0)
  /\ [](main = 0 => failed \ (Tolerated \cup {"nvs_full"}) # {})
  /\ [](Done => ToSet(Tasks) \subseteq created)

(* The tasks that reset the watchdog are subscribed to it as soon as they  *)
(* run, although init_watchdog comes after they were created.              *)
WatchedTasksAreWatched == begun \cap Watched = dog.tasks /\ (Done => dog.on)

=============================================================================
