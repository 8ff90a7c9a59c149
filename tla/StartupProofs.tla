---------------------------- MODULE StartupProofs -----------------------------
(***************************************************************************)
(* Proofs about Startup: whatever fails and whatever runs meanwhile, and   *)
(* on whatever pins edges come, nothing runs without the objects it needs. *)
(***************************************************************************)
EXTENDS Startup, SequenceTheorems, TLAPS

-----------------------------------------------------------------------------
(* The order of app_main, call by call.                                    *)

Names == Pins \cup {"objects", "gpio", "adc", "rtc", "wait_ap", "watchdog", "blink"}
           \cup {"nvs_init", "netif", "event_loop", "wifi_init", "register_handler",
                 "wifi_config", "wifi_start"}
           \cup {"client_mutex", "cleanup_task", "spiffs", "httpd"}
           \cup {"EmergencyTask", "SensorTask", "SecurityTask", "SafetyTask", "ActuatorTask",
                 "MonitoringTask", "CommTask", "ScalabilityTask", "PerformanceTask",
                 "OledTask", "MqttBroker"}

LEMMA Parts ==
  /\ Interrupts \in Seq(Names) /\ Len(Interrupts) = 5
  /\ SoftAp \in Seq(Names) /\ Len(SoftAp) = 7
  /\ WebServer \in Seq(Names) /\ Len(WebServer) = 4
  /\ Tasks \in Seq(Names) /\ Len(Tasks) = 11
<1>1. Interrupts \in Seq(Names) /\ Len(Interrupts) = 5
  BY DEF Interrupts, Names, Pins
<1>2. SoftAp \in Seq(Names) /\ Len(SoftAp) = 7
  BY DEF SoftAp, Names
<1>3. WebServer \in Seq(Names) /\ Len(WebServer) = 4
  BY DEF WebServer, Names
<1>4. Tasks \in Seq(Names) /\ Len(Tasks) = 11
  BY DEF Tasks, Names
<1> QED  BY <1>1, <1>2, <1>3, <1>4

Joined(u, s, t) ==
  /\ u \in Seq(Names) /\ Len(u) = Len(s) + Len(t)
  /\ \A i \in 1..Len(s) : u[i] = s[i]
  /\ \A i \in 1..Len(t) : u[Len(s) + i] = t[i]

LEMMA Concat ==
  ASSUME NEW s \in Seq(Names), NEW t \in Seq(Names)
  PROVE  Joined(s \o t, s, t)
<1>1. Len(s) \in Nat /\ Len(t) \in Nat
  OBVIOUS
<1>2. s \o t \in Seq(Names) /\ Len(s \o t) = Len(s) + Len(t)
  BY ConcatProperties
<1>3. \A i \in 1..Len(s) + Len(t) : (s \o t)[i] = IF i <= Len(s) THEN s[i] ELSE t[i - Len(s)]
  BY ConcatProperties
<1>4. ASSUME NEW i \in 1..Len(s) PROVE (s \o t)[i] = s[i]
  BY <1>1, <1>3
<1>5. ASSUME NEW i \in 1..Len(t) PROVE (s \o t)[Len(s) + i] = t[i]
  <2>1. /\ Len(s) + i \in 1..Len(s) + Len(t) /\ ~(Len(s) + i <= Len(s))
        /\ (Len(s) + i) - Len(s) = i
    BY <1>1
  <2> QED  BY <1>3, <2>1
<1> QED  BY <1>2, <1>4, <1>5 DEF Joined

(* Where each part begins.                                                 *)
LEMMA OrderParts ==
  /\ Order \in Seq(Names) /\ Len(Order) = 34
  /\ Order[1] = "objects" /\ Order[2] = "gpio"
  /\ \A i \in 1..5 : Order[2 + i] = Interrupts[i]
  /\ Order[8] = "adc" /\ Order[9] = "rtc"
  /\ \A i \in 1..7 : Order[9 + i] = SoftAp[i]
  /\ Order[17] = "wait_ap"
  /\ \A i \in 1..4 : Order[17 + i] = WebServer[i]
  /\ \A i \in 1..11 : Order[21 + i] = Tasks[i]
  /\ Order[33] = "watchdog" /\ Order[34] = "blink"
<1> DEFINE a == <<"objects", "gpio">>
           b == a \o Interrupts
           c == b \o <<"adc", "rtc">>
           d == c \o SoftAp
           e == d \o <<"wait_ap">>
           f == e \o WebServer
           g == f \o Tasks
<1>1. Order = g \o <<"watchdog", "blink">>
  BY DEF Order
<1>a. a \in Seq(Names) /\ Len(a) = 2 /\ a[1] = "objects" /\ a[2] = "gpio"
  BY DEF Names
<1> HIDE DEF a
<1>b. /\ b \in Seq(Names) /\ Len(b) = 7 /\ \A i \in 1..2 : b[i] = a[i]
      /\ \A i \in 1..5 : b[2 + i] = Interrupts[i]
  <2>1. Joined(b, a, Interrupts)
    BY <1>a, Parts, Concat, Zenon
  <2> HIDE DEF b
  <2> QED  BY <1>a, Parts, <2>1 DEF Joined
<1> HIDE DEF b
<1>c. /\ c \in Seq(Names) /\ Len(c) = 9 /\ \A i \in 1..7 : c[i] = b[i]
      /\ c[8] = "adc" /\ c[9] = "rtc"
  <2> DEFINE k == <<"adc", "rtc">>
  <2>1. k \in Seq(Names) /\ Len(k) = 2 /\ k[1] = "adc" /\ k[2] = "rtc"
    BY DEF Names
  <2> HIDE DEF k
  <2>2. c = b \o k
    BY DEF k
  <2>3. Joined(c, b, k)
    BY <1>b, <2>1, <2>2, Concat, Zenon
  <2> HIDE DEF c
  <2> QED  BY <1>b, <2>1, <2>3 DEF Joined
<1> HIDE DEF c
<1>d. /\ d \in Seq(Names) /\ Len(d) = 16 /\ \A i \in 1..9 : d[i] = c[i]
      /\ \A i \in 1..7 : d[9 + i] = SoftAp[i]
  <2>1. Joined(d, c, SoftAp)
    BY <1>c, Parts, Concat, Zenon
  <2> HIDE DEF d
  <2> QED  BY <1>c, Parts, <2>1 DEF Joined
<1> HIDE DEF d
<1>e. /\ e \in Seq(Names) /\ Len(e) = 17 /\ \A i \in 1..16 : e[i] = d[i]
      /\ e[17] = "wait_ap"
  <2>1. <<"wait_ap">> \in Seq(Names) /\ Len(<<"wait_ap">>) = 1 /\ <<"wait_ap">>[1] = "wait_ap"
    BY DEF Names
  <2>2. Joined(e, d, <<"wait_ap">>)
    BY <1>d, <2>1, Concat, Zenon
  <2> HIDE DEF e
  <2> QED  BY <1>d, <2>1, <2>2 DEF Joined
<1> HIDE DEF e
<1>f. /\ f \in Seq(Names) /\ Len(f) = 21 /\ \A i \in 1..17 : f[i] = e[i]
      /\ \A i \in 1..4 : f[17 + i] = WebServer[i]
  <2>1. Joined(f, e, WebServer)
    BY <1>e, Parts, Concat, Zenon
  <2> HIDE DEF f
  <2> QED  BY <1>e, Parts, <2>1 DEF Joined
<1> HIDE DEF f
<1>g. /\ g \in Seq(Names) /\ Len(g) = 32 /\ \A i \in 1..21 : g[i] = f[i]
      /\ \A i \in 1..11 : g[21 + i] = Tasks[i]
  <2>1. Joined(g, f, Tasks)
    BY <1>f, Parts, Concat, Zenon
  <2> HIDE DEF g
  <2> QED  BY <1>f, Parts, <2>1 DEF Joined
<1> HIDE DEF g
<1>2. /\ Order \in Seq(Names) /\ Len(Order) = 34 /\ \A i \in 1..32 : Order[i] = g[i]
      /\ Order[33] = "watchdog" /\ Order[34] = "blink"
  <2> DEFINE h == <<"watchdog", "blink">>
  <2>1. h \in Seq(Names) /\ Len(h) = 2 /\ h[1] = "watchdog" /\ h[2] = "blink"
    BY DEF Names
  <2> HIDE DEF h
  <2>2. Order = g \o h
    BY <1>1 DEF h
  <2>3. Joined(Order, g, h)
    BY <1>g, <2>1, <2>2, Concat, Zenon
  <2> QED  BY <1>g, <2>1, <2>3 DEF Joined
<1> QED
  BY <1>a, <1>b, <1>c, <1>d, <1>e, <1>f, <1>g, <1>2

LEMMA Calls ==
  /\ DOMAIN Order = 1..34 /\ Len(Order) = 34
  /\ Order[1] = "objects" /\ Order[2] = "gpio" /\ Order[8] = "adc" /\ Order[9] = "rtc"
  /\ Order[17] = "wait_ap" /\ Order[33] = "watchdog" /\ Order[34] = "blink"
  /\ Order[3] = "pir" /\ Order[4] = "door" /\ Order[5] = "vibration" /\ Order[6] = "button1"
  /\ Order[7] = "button2"
  /\ Order[10] = "nvs_init" /\ Order[11] = "netif" /\ Order[12] = "event_loop"
  /\ Order[13] = "wifi_init" /\ Order[14] = "register_handler" /\ Order[15] = "wifi_config"
  /\ Order[16] = "wifi_start"
  /\ Order[18] = "client_mutex" /\ Order[19] = "cleanup_task" /\ Order[20] = "spiffs"
  /\ Order[21] = "httpd"
  /\ Order[22] = "EmergencyTask" /\ Order[23] = "SensorTask" /\ Order[24] = "SecurityTask"
  /\ Order[25] = "SafetyTask" /\ Order[26] = "ActuatorTask" /\ Order[27] = "MonitoringTask"
  /\ Order[28] = "CommTask" /\ Order[29] = "ScalabilityTask" /\ Order[30] = "PerformanceTask"
  /\ Order[31] = "OledTask" /\ Order[32] = "MqttBroker"
BY OrderParts DEF Interrupts, SoftAp, WebServer, Tasks

LEMMA TheTasks ==
  ToSet(Tasks) = {"EmergencyTask", "SensorTask", "SecurityTask", "SafetyTask", "ActuatorTask",
                  "MonitoringTask", "CommTask", "ScalabilityTask", "PerformanceTask",
                  "OledTask", "MqttBroker"}
BY DEF ToSet, Tasks

LEMMA TheSoftAp ==
  ToSet(SoftAp) = {"nvs_init", "netif", "event_loop", "wifi_init", "register_handler",
                   "wifi_config", "wifi_start"}
BY DEF ToSet, SoftAp

(* Which call app_main is at, and how far it is.                           *)
LEMMA Where ==
  ASSUME NEW name, At(name)
  PROVE  /\ main \in 1..34
         /\ name = "objects" => main = 1
         /\ name = "gpio" => main = 2
         /\ name \in Pins => main \in 3..7
         /\ name \in {"adc", "rtc"} => main \in {8, 9}
         /\ name \in ToSet(SoftAp) => main \in 10..16
         /\ name = "wait_ap" => main = 17
         /\ name = "client_mutex" => main = 18
         /\ name = "cleanup_task" => main = 19
         /\ name = "spiffs" => main = 20
         /\ name = "httpd" => main = 21
         /\ name \in ToSet(Tasks) => main \in 22..32
         /\ name \in {"watchdog", "blink"} => main \in {33, 34}
<1>1. main \in 1..34 /\ Order[main] = name
  BY Calls DEF At
<1>2. CASE main \in 1..9
  <2>1. main \in {1, 2, 3, 4, 5, 6, 7, 8, 9}
    BY <1>2
  <2> QED  BY <1>1, <2>1, Calls, TheTasks, TheSoftAp DEF Pins
<1>3. CASE main \in 10..17
  <2>1. main \in {10, 11, 12, 13, 14, 15, 16, 17}
    BY <1>3
  <2> QED  BY <1>1, <2>1, Calls, TheTasks, TheSoftAp DEF Pins
<1>4. CASE main \in 18..21
  <2>1. main \in {18, 19, 20, 21}
    BY <1>4
  <2> QED  BY <1>1, <2>1, Calls, TheTasks, TheSoftAp DEF Pins
<1>5. CASE main \in 22..32
  <2>1. main \in {22, 23, 24, 25, 26, 27, 28, 29, 30, 31, 32}
    BY <1>5
  <2> QED  BY <1>1, <2>1, Calls, TheTasks, TheSoftAp DEF Pins
<1>6. CASE main \in 33..34
  <2>1. main \in {33, 34}
    BY <1>6
  <2> QED  BY <1>1, <2>1, Calls, TheTasks, TheSoftAp DEF Pins
<1> QED  BY <1>1, <1>2, <1>3, <1>4, <1>5, <1>6

(* Where the start goes on without interrupts, and without a server.       *)
LEMMA Places == Place("adc") = 8 /\ Place("httpd") = 21
<1>1. DOMAIN Order = 1..34 /\ Order[8] = "adc" /\ Order[21] = "httpd"
  BY Calls
<1>2. \A i \in 1..34 : Order[i] = "httpd" => i = 21
  BY Calls
<1>3. \A i \in 1..34 : Order[i] = "adc" => i = 8
  BY Calls
<1> QED  BY <1>1, <1>2, <1>3 DEF Place

-----------------------------------------------------------------------------
(* How far app_main must be for what there is.                             *)

(* Nothing but app_main exists before the objects of the kernel.           *)
ObjectsInv ==
  main > 1 \/ handlers # {} \/ listening \/ apBit \/ created # {} => KernelObjects \subseteq made

(* The alarm tasks are created one after the other, none is left out.      *)
TasksInv == \A i \in 22..32 : i < main => Order[i] \in created

DogInv == dog.on /\ begun \cap Watched = dog.tasks

(* Only the failure of a checked call restarts the chip.                   *)
RestartInv == main = 0 => failed \ (Tolerated \cup {"nvs_full"}) # {}

StartInv ==
  TypeOK /\ ObjectsInv /\ TasksInv /\ EarlyEdgeIsKept /\ DogInv /\ RestartInv

LEMMA TheSemaphores == \A pin \in Pins : SemaphoreOf(pin) \in KernelObjects
BY DEF Pins, SemaphoreOf, KernelObjects

LEMMA CheckedCalls ==
  \A name \in Checked \cup {"objects"} : name \notin Tolerated \cup {"nvs_full"}
BY TheTasks, TheSoftAp DEF Checked, Tolerated

LEMMA StartInit == Init => StartInv
<1> SUFFICES ASSUME Init PROVE StartInv
  OBVIOUS
<1>1. Len(Order) = 34
  BY Calls
<1>2. TypeOK
  <2>1. dog \in [on : BOOLEAN, seconds : {0, 5, 30}, tasks : SUBSET Watched]
    BY DEF Init, DogAtBoot
  <2>2. main \in 0..(Len(Order) + 1)
    BY <1>1 DEF Init
  <2> QED  BY <2>1, <2>2 DEF Init, TypeOK
<1>3. ObjectsInv /\ TasksInv /\ EarlyEdgeIsKept /\ DogInv /\ RestartInv
  BY DEF Init, ObjectsInv, TasksInv, EarlyEdgeIsKept, DogInv, DogAtBoot, RestartInv
<1> QED  BY <1>2, <1>3 DEF StartInv

(* A call that creates no object and no task.                              *)
LEMMA Onward ==
  ASSUME StartInv, TypeOK', main \in 2..34, main \notin 22..32, main' = main + 1,
         made \subseteq made', UNCHANGED <<created, begun, given, dog, owed, failed>>
  PROVE  StartInv'
<1>1. KernelObjects \subseteq made
  BY DEF StartInv, ObjectsInv
<1>2. ObjectsInv'
  BY <1>1 DEF ObjectsInv
<1>3. TasksInv'
  <2>1. \A i \in 22..32 : i < main' => i < main
    OBVIOUS
  <2> QED  BY <2>1 DEF StartInv, TasksInv
<1>4. EarlyEdgeIsKept' /\ DogInv' /\ RestartInv'
  BY DEF StartInv, EarlyEdgeIsKept, DogInv, RestartInv
<1> QED  BY <1>2, <1>3, <1>4 DEF StartInv

(* What app_main does not move.                                            *)
LEMMA Aside ==
  ASSUME StartInv, TypeOK', main' = main, main # 0,
         UNCHANGED <<made, created>>, EarlyEdgeIsKept', DogInv',
         handlers' \subseteq handlers, listening' = listening, apBit' \in {apBit, listening}
  PROVE  StartInv'
<1>1. ObjectsInv'
  BY DEF StartInv, ObjectsInv
<1>2. TasksInv' /\ RestartInv'
  BY DEF StartInv, TasksInv, RestartInv
<1> QED  BY <1>1, <1>2 DEF StartInv

LEMMA CreateTaskStep ==
  ASSUME StartInv, NEW task \in TaskNames, CreateTask(task)
  PROVE  StartInv'
<1>1. /\ At(CallFor(task)) /\ main' = main + 1 /\ created' = created \cup {task}
      /\ UNCHANGED <<made, handlers, given, young, ap, listening, apBit, begun, dog, owed, failed>>
  BY DEF CreateTask, Proceed
<1>2. /\ task \in ToSet(Tasks) => CallFor(task) = task /\ main \in 22..32 /\ Order[main] = task
      /\ task = "CleanupTask" => CallFor(task) = "cleanup_task" /\ main = 19
      /\ task = "httpd" => CallFor(task) = "httpd" /\ main = 21
  <2>1. CASE task \in ToSet(Tasks)
    <3>1. CallFor(task) = task /\ task \notin {"CleanupTask", "httpd"}
      BY <2>1, TheTasks DEF CallFor
    <3> QED  BY <1>1, <2>1, <3>1, Where DEF At
  <2>2. CASE task = "CleanupTask"
    <3>1. CallFor(task) = "cleanup_task" /\ task \notin ToSet(Tasks)
      BY <2>2, TheTasks DEF CallFor
    <3> QED  BY <1>1, <2>2, <3>1, Where
  <2>3. CASE task = "httpd"
    <3>1. CallFor(task) = "httpd" /\ task \notin ToSet(Tasks)
      BY <2>3, TheTasks DEF CallFor
    <3> QED  BY <1>1, <2>3, <3>1, Where
  <2> QED  BY <2>1, <2>2, <2>3 DEF TaskNames
<1>3. main \in {19, 21} \cup 22..32
  BY <1>2 DEF TaskNames
<1>4. KernelObjects \subseteq made
  BY <1>3 DEF StartInv, ObjectsInv
<1>5. TypeOK'
  BY <1>1, <1>3, Calls DEF StartInv, TypeOK
<1>6. ObjectsInv' /\ EarlyEdgeIsKept' /\ DogInv'
  BY <1>1, <1>4 DEF StartInv, ObjectsInv, EarlyEdgeIsKept, DogInv
<1>7. RestartInv'
  BY <1>1, <1>3 DEF RestartInv
<1>8. TasksInv'
  <2> SUFFICES ASSUME NEW i \in 22..32, i < main' PROVE Order[i] \in created'
    BY DEF TasksInv
  <2>1. CASE i < main
    BY <1>1, <2>1 DEF StartInv, TasksInv
  <2>2. CASE i = main
    <3>1. task \in ToSet(Tasks)
      BY <1>2, <2>2 DEF TaskNames
    <3> QED  BY <1>1, <1>2, <2>2, <3>1
  <2> QED  BY <1>1, <1>3, <2>1, <2>2
<1> QED  BY <1>5, <1>6, <1>7, <1>8 DEF StartInv

LEMMA MainStep == StartInv /\ Main => StartInv'
<1> SUFFICES ASSUME StartInv, Main PROVE StartInv'
  OBVIOUS
<1> USE DEF Proceed
<1>1. CASE CreateObjects
  <2>1. main = 1
        /\ UNCHANGED <<handlers, given, young, ap, listening, apBit, created, begun, dog, owed>>
    BY <1>1, Where DEF CreateObjects
  <2>2. PICK missing \in SUBSET Fragile :
          /\ made' = made \cup (KernelObjects \ missing)
          /\ \/ Asserted \cap missing = {} /\ main' = 2 /\ failed' = failed
             \/ Asserted \cap missing # {} /\ main' = 0 /\ failed' = failed \cup {"objects"}
    BY <1>1, <2>1 DEF CreateObjects
  <2>3. TypeOK'
    BY <2>1, <2>2, Calls DEF StartInv, TypeOK
  <2>4. ObjectsInv'
    <3>1. CASE Asserted \cap missing = {}
      <4>1. missing = {}
        BY <3>1, StartupAssumption DEF StartupAssumption, Asserted
      <4> QED  BY <2>2, <4>1 DEF ObjectsInv
    <3>2. CASE main' = 0
      BY <2>1, <2>2, <3>2 DEF StartInv, ObjectsInv
    <3> QED  BY <2>2, <3>1, <3>2
  <2>5. RestartInv'
    BY <2>2, CheckedCalls DEF RestartInv
  <2>6. TasksInv' /\ EarlyEdgeIsKept' /\ DogInv'
    BY <2>1, <2>2 DEF StartInv, TasksInv, EarlyEdgeIsKept, DogInv
  <2> QED  BY <2>3, <2>4, <2>5, <2>6 DEF StartInv
<1>2. ASSUME NEW pin \in Pins, AddHandler(pin) PROVE StartInv'
  <2>1. main \in 3..7 /\ main' = main + 1 /\ handlers' = handlers \cup {pin}
        /\ UNCHANGED <<made, given, young, ap, listening, apBit, created, begun, dog, owed, failed>>
    BY <1>2, Where DEF AddHandler
  <2>2. TypeOK'
    BY <2>1, Calls DEF StartInv, TypeOK
  <2> QED  BY <2>1, <2>2, Onward
<1>3. ASSUME NEW name, name \in {"gpio", "adc", "rtc", "spiffs", "blink"} \cup ToSet(SoftAp),
             Pass(name)
      PROVE  StartInv'
  <2>1. main \in 2..34 /\ main \notin 22..32 /\ main' = main + 1
        /\ UNCHANGED <<made, handlers, given, young, ap, listening, apBit, created, begun, dog,
                       owed, failed>>
    BY <1>3, Where DEF Pass
  <2>2. TypeOK'
    BY <2>1, Calls DEF StartInv, TypeOK
  <2> QED  BY <2>1, <2>2, Onward
<1>4. CASE \/ ConfigureGpio \/ ConfigureAdc \/ ProbeRtc \/ InitNvs \/ InitNetwork
           \/ ConfigureWifi \/ MountSpiffs \/ Blink
  BY <1>3, <1>4, TheSoftAp
     DEF ConfigureGpio, ConfigureAdc, ProbeRtc, InitNvs, InitNetwork, ConfigureWifi, MountSpiffs,
         Blink
<1>5. CASE NvsErase
  <2>1. main \in 10..16 /\ main' = main /\ failed' = failed \cup {"nvs_full"}
        /\ UNCHANGED <<made, handlers, given, young, ap, listening, apBit, created, begun, dog,
                       owed>>
    BY <1>5, Where, TheSoftAp DEF NvsErase
  <2>2. TypeOK'
    BY <2>1 DEF StartInv, TypeOK
  <2>3. EarlyEdgeIsKept' /\ DogInv'
    BY <2>1 DEF StartInv, EarlyEdgeIsKept, DogInv
  <2> QED  BY <2>1, <2>2, <2>3, Aside
<1>6. CASE RegisterHandler \/ WifiStart
  <2>1. main \in 10..16 /\ main' = main + 1 /\ listening' \in BOOLEAN
        /\ ap' \in {"off", "starting", "up"}
        /\ UNCHANGED <<made, handlers, given, young, apBit, created, begun, dog, owed, failed>>
    BY <1>6, Where, TheSoftAp DEF RegisterHandler, WifiStart, StartInv, TypeOK
  <2>2. TypeOK'
    BY <2>1, Calls DEF StartInv, TypeOK
  <2> QED  BY <2>1, <2>2, Onward
<1>7. CASE WaitAp
  <2>1. main = 17 /\ main' = main + 1
        /\ UNCHANGED <<made, handlers, given, young, ap, listening, apBit, created, begun, dog,
                       owed, failed>>
    BY <1>7, Where DEF WaitAp
  <2>2. TypeOK'
    BY <2>1, Calls DEF StartInv, TypeOK
  <2> QED  BY <2>1, <2>2, Onward
<1>8. CASE MakeClientMutex
  <2>1. main = 18 /\ main' = main + 1 /\ made' = made \cup {"xClientMutex"}
        /\ UNCHANGED <<handlers, given, young, ap, listening, apBit, created, begun, dog, owed,
                       failed>>
    BY <1>8, Where DEF MakeClientMutex
  <2>2. TypeOK'
    BY <2>1, Calls DEF StartInv, TypeOK
  <2> QED  BY <2>1, <2>2, Onward
<1>9. ASSUME NEW task \in TaskNames, CreateTask(task) PROVE StartInv'
  BY <1>9, CreateTaskStep
<1>10. CASE InitWatchdog
  <2>1. main \in {33, 34} /\ main' = main + 1 /\ dog' = dog
        /\ UNCHANGED <<made, handlers, given, young, ap, listening, apBit, created, begun, owed,
                       failed>>
    BY <1>10, Where DEF InitWatchdog, StartInv, DogInv
  <2>2. TypeOK'
    BY <2>1, Calls DEF StartInv, TypeOK
  <2> QED  BY <2>1, <2>2, Onward
<1>11. CASE FailChecked
  <2>1. PICK name \in Checked : failed' = failed \cup {name}
    BY <1>11 DEF FailChecked
  <2>2. main' = 0
        /\ UNCHANGED <<made, handlers, given, young, ap, listening, apBit, created, begun, dog,
                       owed>>
    BY <1>11 DEF FailChecked
  <2>3. TypeOK'
    BY <2>1, <2>2, Calls DEF StartInv, TypeOK
  <2>4. RestartInv'
    BY <2>1, CheckedCalls DEF RestartInv
  <2>5. ObjectsInv' /\ TasksInv'
    BY <2>2 DEF StartInv, ObjectsInv, TasksInv
  <2>6. EarlyEdgeIsKept' /\ DogInv'
    BY <2>2 DEF StartInv, EarlyEdgeIsKept, DogInv
  <2> QED  BY <2>3, <2>4, <2>5, <2>6 DEF StartInv
<1>12. CASE FailTolerated
  <2>1. PICK name \in Tolerated :
          At(name) /\ failed' = failed \cup {name} /\ main' = AfterFailure(name)
    BY <1>12 DEF FailTolerated
  <2>2. UNCHANGED <<made, handlers, given, young, ap, listening, apBit, created, begun, dog, owed>>
    BY <1>12 DEF FailTolerated
  <2>3. \/ main \in {8, 9, 19, 20} /\ main' = main + 1
        \/ main = 2 /\ main' = 8
        \/ main \in {18, 21} /\ main' = 22
    <3>1. CASE name \in {"client_mutex", "httpd"}
      BY <2>1, <3>1, Where, Places DEF AfterFailure
    <3>2. CASE name = "gpio"
      BY <2>1, <3>2, Where, Places DEF AfterFailure
    <3>3. CASE name \in {"rtc", "cleanup_task", "spiffs"}
      BY <2>1, <3>3, Where DEF AfterFailure
    <3> QED  BY <3>1, <3>2, <3>3 DEF Tolerated
  <2>4. TypeOK'
    BY <2>1, <2>2, <2>3, Calls DEF StartInv, TypeOK
  <2>5. ObjectsInv' /\ EarlyEdgeIsKept' /\ DogInv' /\ RestartInv'
    BY <2>2, <2>3 DEF StartInv, ObjectsInv, EarlyEdgeIsKept, DogInv, RestartInv
  <2>6. TasksInv'
    BY <2>2, <2>3 DEF StartInv, TasksInv
  <2> QED  BY <2>4, <2>5, <2>6 DEF StartInv
<1> QED
  BY <1>1, <1>2, <1>4, <1>5, <1>6, <1>7, <1>8, <1>9, <1>10, <1>11, <1>12 DEF Main

LEMMA StartStep == StartInv /\ [Next]_vars => StartInv'
<1> SUFFICES ASSUME StartInv, [Next]_vars PROVE StartInv'
  OBVIOUS
<1>1. ASSUME NEW pin \in Edges, Edge(pin) PROVE StartInv'
  <2>1. /\ main # 0 /\ pin \in handlers /\ owed' = owed \cup {pin}
        /\ given' = given \cup {p \in {pin} : SemaphoreOf(p) \in made}
        /\ UNCHANGED <<main, made, handlers, young, ap, listening, apBit, created, begun, dog,
                       failed>>
    BY <1>1 DEF Edge, Alive
  <2>2. SemaphoreOf(pin) \in made
    BY <2>1, TheSemaphores, StartupAssumption DEF StartupAssumption, StartInv, ObjectsInv
  <2>3. given' = given \cup {pin}
    BY <2>1, <2>2
  <2>4. TypeOK' /\ EarlyEdgeIsKept'
    BY <2>1, <2>3 DEF StartInv, TypeOK, EarlyEdgeIsKept
  <2>5. DogInv'
    BY <2>1 DEF StartInv, DogInv
  <2> QED  BY <2>1, <2>4, <2>5, Aside
<1>2. ASSUME NEW pin \in Edges, TakeEdge(pin) PROVE StartInv'
  <2>1. /\ main # 0 /\ given' = given \ {pin} /\ owed' = owed \ {pin}
        /\ UNCHANGED <<main, made, handlers, young, ap, listening, apBit, created, begun, dog,
                       failed>>
    BY <1>2 DEF TakeEdge, Alive
  <2>2. TypeOK' /\ EarlyEdgeIsKept' /\ DogInv'
    BY <2>1 DEF StartInv, TypeOK, EarlyEdgeIsKept, DogInv
  <2> QED  BY <2>1, <2>2, Aside
<1>3. CASE Age \/ ApStarted
  <2>1. /\ main # 0 /\ young' \in BOOLEAN /\ ap' \in {"off", "starting", "up"}
        /\ apBit' \in {apBit, listening}
        /\ UNCHANGED <<main, made, handlers, given, listening, created, begun, dog, owed, failed>>
    BY <1>3 DEF Age, ApStarted, Alive, StartInv, TypeOK
  <2>2. TypeOK' /\ EarlyEdgeIsKept' /\ DogInv'
    BY <2>1 DEF StartInv, TypeOK, EarlyEdgeIsKept, DogInv
  <2> QED  BY <2>1, <2>2, Aside
<1>4. ASSUME NEW task \in TaskNames, Begin(task) PROVE StartInv'
  <2>1. /\ main # 0 /\ task \in created \ begun /\ begun' = begun \cup {task}
        /\ dog' = [dog EXCEPT !.tasks = @ \cup {t \in {task} \cap Watched : dog.on}]
        /\ UNCHANGED <<main, made, handlers, given, young, ap, listening, apBit, created, owed,
                       failed>>
    BY <1>4 DEF Begin, Alive
  <2>2. /\ dog \in [on : BOOLEAN, seconds : {0, 5, 30}, tasks : SUBSET Watched]
        /\ dog.on /\ begun \cap Watched = dog.tasks
    BY DEF StartInv, TypeOK, DogInv
  <2>3. /\ dog' \in [on : BOOLEAN, seconds : {0, 5, 30}, tasks : SUBSET Watched]
        /\ dog'.on /\ dog'.tasks = dog.tasks \cup ({task} \cap Watched)
    BY <2>1, <2>2
  <2>4. TypeOK'
    BY <2>1, <2>3 DEF StartInv, TypeOK
  <2>5. EarlyEdgeIsKept' /\ DogInv'
    BY <2>1, <2>2, <2>3 DEF StartInv, EarlyEdgeIsKept, DogInv
  <2> QED  BY <2>1, <2>4, <2>5, Aside
<1>5. CASE Restart
  <2>1. Init'
    BY <1>5 DEF Restart, Init
  <2> QED  BY <2>1, StartInit, PTL
<1>6. CASE RunOn \/ UNCHANGED vars
  BY <1>6 DEF RunOn, vars, StartInv, TypeOK, ObjectsInv, TasksInv, EarlyEdgeIsKept, DogInv,
              RestartInv
<1> QED
  BY <1>1, <1>2, <1>3, <1>4, <1>5, <1>6, MainStep DEF Next

LEMMA StartInvariance == Spec => []StartInv
BY StartInit, StartStep, PTL DEF Spec

-----------------------------------------------------------------------------
(* Theorems                                                                *)

(* Type correctness of the start.                                          *)
THEOREM TypeCorrect == Spec => []TypeOK
<1>1. StartInv => TypeOK
  BY DEF StartInv
<1> QED  BY <1>1, StartInvariance, PTL

(* NothingUsesTheMissing: whichever objects of the kernel cannot be        *)
(* created, none of the tasks that use one of them untested ever runs, and *)
(* no bit is set in a group that is missing; what may be missing while     *)
(* tasks run, xClientMutex, has no user that does not test it.             *)
THEOREM MissingIsUnused == Spec => []NothingUsesTheMissing
<1>1. StartInv => NothingUsesTheMissing
  <2> SUFFICES ASSUME StartInv PROVE NothingUsesTheMissing
    OBVIOUS
  <2>1. apBit => "xSystemEventGroup" \in made
    BY DEF StartInv, ObjectsInv, KernelObjects
  <2>2. ASSUME NEW object \in KernelObjects \ made PROVE Users(object) \cap begun = {}
    <3>1. created = {} /\ begun \subseteq created
      BY <2>2 DEF StartInv, ObjectsInv, TypeOK
    <3> QED  BY <3>1
  <2>3. Users("xClientMutex") = {}
    BY DEF Users
  <2> QED  BY <2>1, <2>2, <2>3 DEF NothingUsesTheMissing
<1> QED  BY <1>1, StartInvariance, PTL

(* EarlyEdgeIsKept, FIX-26 and FIX-27: an edge that an installed handler   *)
(* accepts is in its semaphore until its task takes it, on whatever pins   *)
(* and however early edges come.                                           *)
THEOREM EarlyEdgesAreKept == Spec => []EarlyEdgeIsKept
<1>1. StartInv => EarlyEdgeIsKept
  BY DEF StartInv
<1> QED  BY <1>1, StartInvariance, PTL

(* WatchedTasksAreWatched: a task that resets the watchdog is subscribed   *)
(* to it from its first run on, and after the start the watchdog is on.    *)
THEOREM TasksAreWatched == Spec => []WatchedTasksAreWatched
<1>1. StartInv => WatchedTasksAreWatched
  BY DEF StartInv, DogInv, WatchedTasksAreWatched
<1> QED  BY <1>1, StartInvariance, PTL

(* The two halves of StartUpEnds that are not about its end: a restart has *)
(* a checked call that failed as its reason, and app_main does not come to *)
(* its end without all the alarm tasks, whatever else failed.              *)
THEOREM StartIsComplete ==
  Spec => [](/\ main = 0 => failed \ (Tolerated \cup {"nvs_full"}) # {}
             /\ Done => ToSet(Tasks) \subseteq created)
<1> DEFINE Complete == /\ main = 0 => failed \ (Tolerated \cup {"nvs_full"}) # {}
                       /\ Done => ToSet(Tasks) \subseteq created
<1>1. StartInv => Complete
  <2> SUFFICES ASSUME StartInv PROVE Complete
    OBVIOUS
  <2>1. ASSUME Done PROVE ToSet(Tasks) \subseteq created
    <3>1. main = 35
      BY <2>1, Calls DEF Done
    <3>2. \A i \in 22..32 : Order[i] \in created
      BY <3>1 DEF StartInv, TasksInv
    <3>3. \A i \in {22, 23, 24, 25, 26, 27, 28, 29, 30, 31, 32} : Order[i] \in created
      BY <3>2
    <3> QED  BY <3>3, Calls, TheTasks
  <2> QED  BY <2>1 DEF StartInv, RestartInv
<1> QED  BY <1>1, StartInvariance, PTL

=============================================================================
