------------------------ MODULE PreviewScripts_proofs ------------------------
(***************************************************************************)
(* Theorems about PreviewScripts for every set of previews, every range of *)
(* ports and every set of failures.                                        *)
(***************************************************************************)
EXTENDS PreviewScripts, TLAPS

\* Names and scripts are made of previews and colors.
LEMMA NameTypes ==
  /\ \A i \in Preview, c \in Color : <<i, c>> \in Name
  /\ \A i \in Preview : TypeOK => Own(i) \in Name /\ Live(i) \in Name
  /\ \A i \in Preview : Base(i) \in Name
  /\ \A c \in Color : Opposite(c) \in Color
  /\ NoScript \in Script
BY DEF Name, Color, TypeOK, Own, Live, Base, Script, Opposite, NoScript, PC, Op

\* The port a name is given is a port.
LEMMA PortForType ==
  ASSUME TypeOK, NEW n \in Name, NEW p \in PortFor(n)
  PROVE  /\ p \in Port
         /\ p = port[n] \/ (port[n] = 0 /\ p \in Free(n))
BY PortAssumption DEF TypeOK, PortFor, Free

\* The steps that only move a script on keep it well formed.
LEMMA MoveTypes ==
  ASSUME TypeOK, NEW i \in Preview
  PROVE  /\ \A pc \in PC : Goto(i, pc) => script' \in [Preview -> Script]
         /\ \A op \in Op, pc \in PC : Run(i, op, pc) => script' \in [Preview -> Script]
         /\ End(i) => script' \in [Preview -> Script]
<1>1. script[i] \in Script /\ script \in [Preview -> Script]
  BY DEF TypeOK
<1>2. \A pc \in PC : [script[i] EXCEPT !.pc = pc] \in Script
  BY <1>1 DEF Script
<1>3. \A op \in Op, pc \in PC, p \in Port \cup {0} :
        [script[i] EXCEPT !.op = op, !.pc = pc, !.port = p] \in Script
  BY <1>1 DEF Script
<1>4. script[i].port \in Port \cup {0}
  BY <1>1 DEF Script
<1>5. ASSUME NEW op \in Op, NEW pc \in PC, Run(i, op, pc)
      PROVE  script' \in [Preview -> Script]
  BY <1>1, <1>3, <1>4, <1>5 DEF Run
<1>6. ASSUME NEW pc \in PC, Goto(i, pc) PROVE script' \in [Preview -> Script]
  BY <1>1, <1>2, <1>6 DEF Goto
<1> QED BY <1>1, <1>5, <1>6, NameTypes DEF End

\* Every step of deploy.sh and of promote-zd.sh keeps the types.
LEMMA DeployTypes ==
  ASSUME TypeOK, NEW i \in Preview,
         \/ \E op \in Op : Begin(i, op)
         \/ Reserve(i) \/ StopOwn(i) \/ Check(i) \/ Start(i) \/ WriteLocation(i)
         \/ Reload(i) \/ Record(i) \/ Fails(i) \/ Kill(i)
  PROVE  TypeOK'
<1>0. /\ script \in [Preview -> Script] /\ script[i] \in Script
      /\ script[i].port \in Port \cup {0} /\ script[i].color \in Color
      /\ Own(i) \in Name /\ Live(i) \in Name /\ Base(i) \in Name
  BY NameTypes DEF TypeOK, Script
<1>p. /\ {"reserve", "stop", "check", "again", "start", "meta", "location", "reload",
          "record", "settle", "files", "idle"} \subseteq PC
      /\ {"abort", "pause", "promote"} \subseteq Op
  BY DEF PC, Op
<1>1. ASSUME NEW op \in Op, Begin(i, op) PROVE TypeOK'
  <2>1. [pc |-> "reserve", op |-> op, port |-> 0,
         color |-> IF op = "classic" THEN live[i] ELSE Opposite(live[i])] \in Script
    BY <1>p, NameTypes DEF TypeOK, Script
  <2> QED BY <1>0, <1>1, <2>1 DEF Begin, TypeOK
<1>2. CASE Reserve(i)
  <2>1. PICK p \in PortFor(Own(i)) :
          /\ port' = [port EXCEPT ![Own(i)] = p]
          /\ script' = [script EXCEPT ![i].port = p,
                          ![i].pc = IF @ = "reserve" THEN "stop" ELSE "start"]
    BY <1>2 DEF Reserve
  <2>2. p \in Port
    BY <1>0, PortForType
  <2>3. script'[i] \in Script
    BY <1>0, <1>p, <2>1, <2>2 DEF Script
  <2> QED BY <1>0, <1>2, <2>1, <2>2, <2>3 DEF Reserve, TypeOK
<1>3. CASE StopOwn(i)
  BY <1>0, <1>p, <1>3, MoveTypes DEF StopOwn, TypeOK
<1>4. CASE Check(i)
  <2>1. [script[i] EXCEPT !.pc = "again", !.port = 0] \in Script
    BY <1>0, <1>p DEF Script
  <2> QED BY <1>0, <1>p, <1>4, <2>1, MoveTypes DEF Check, TypeOK
<1>5. CASE Start(i)
  <2>1. script' \in [Preview -> Script]
    BY <1>p, <1>5, MoveTypes DEF Start
  <2> QED BY <1>0, <1>5, <2>1 DEF Start, TypeOK
<1>6. CASE WriteLocation(i)
  <2>1. script' \in [Preview -> Script]
    BY <1>p, <1>6, MoveTypes DEF WriteLocation
  <2> QED BY <1>0, <1>6, <2>1 DEF WriteLocation, TypeOK
<1>7. CASE Reload(i)
  <2>1. script' \in [Preview -> Script]
    BY <1>p, <1>7, MoveTypes DEF Reload
  <2> QED BY <1>7, <2>1 DEF Reload, TypeOK
<1>8. CASE Record(i)
  <2>1. script' \in [Preview -> Script]
    BY <1>p, <1>8, MoveTypes DEF Record
  <2> QED BY <1>0, <1>8, <2>1 DEF Record, TypeOK
<1>9. CASE Fails(i)
  <2>1. script' \in [Preview -> Script]
    BY <1>9, MoveTypes DEF Fails
  <2> QED BY <1>0, <1>9, <2>1 DEF Fails, TypeOK
<1>10. CASE Kill(i)
  <2>1. script' \in [Preview -> Script]
    BY <1>p, <1>10, MoveTypes DEF Kill
  <2> QED BY <1>10, <2>1 DEF Kill, TypeOK
<1> QED BY <1>1, <1>2, <1>3, <1>4, <1>5, <1>6, <1>7, <1>8, <1>9, <1>10

\* ... and so does every step of the other scripts and of the API.
LEMMA StopTypes ==
  ASSUME TypeOK, NEW i \in Preview,
         \/ \E op \in Op : BeginStop(i, op)
         \/ Healthy(i) \/ Unhealthy(i) \/ PromoteFails(i) \/ Abort(i)
         \/ StopBoth(i) \/ RemoveFiles(i) \/ StopFails(i) \/ Settle(i)
  PROVE  TypeOK'
<1>0. Own(i) \in Name
  BY NameTypes
<1>p. /\ {"stop", "location", "reload", "files"} \subseteq PC
      /\ {"abort", "pause", "promote"} \subseteq Op /\ "primary" \in Color
  BY DEF PC, Op, Color
<1>1. ASSUME NEW op \in Op, BeginStop(i, op) PROVE TypeOK'
  <2>1. script' \in [Preview -> Script]
    BY <1>p, <1>1, MoveTypes DEF BeginStop
  <2> QED BY <1>1, <2>1 DEF BeginStop, TypeOK
<1>2. CASE Healthy(i)
  <2>1. script' \in [Preview -> Script]
    BY <1>p, <1>2, MoveTypes DEF Healthy, ProbeOk
  <2> QED BY <1>2, <2>1 DEF Healthy, ProbeOk, TypeOK
<1>3. CASE Unhealthy(i)
  <2>1. script' \in [Preview -> Script]
    BY <1>p, <1>3, MoveTypes DEF Unhealthy
  <2> QED BY <1>3, <2>1 DEF Unhealthy, TypeOK
<1>4. CASE PromoteFails(i)
  <2>1. script' \in [Preview -> Script]
    BY <1>p, <1>4, MoveTypes DEF PromoteFails
  <2> QED BY <1>4, <2>1 DEF PromoteFails, TypeOK
<1>5. CASE Abort(i)
  BY <1>0, <1>5, MoveTypes DEF Abort, TypeOK
<1>6. CASE StopBoth(i)
  <2>1. script' \in [Preview -> Script]
    BY <1>p, <1>6, MoveTypes DEF StopBoth
  <2> QED BY <1>6, <2>1 DEF StopBoth, TypeOK
<1>7. CASE RemoveFiles(i)
  <2>1. script' \in [Preview -> Script]
    BY <1>p, <1>7, MoveTypes DEF RemoveFiles
  <2> QED BY <1>p, <1>7, <2>1 DEF RemoveFiles, TypeOK
<1>8. CASE StopFails(i)
  BY <1>8, MoveTypes DEF StopFails, TypeOK
<1>9. CASE Settle(i)
  BY <1>9, MoveTypes DEF Settle, TypeOK
<1> QED BY <1>1, <1>2, <1>3, <1>4, <1>5, <1>6, <1>7, <1>8, <1>9

\* Port files, runtimes, location files and scripts keep their types whatever
\* scripts run side by side and however they fail.
THEOREM ScriptsTypeCorrect == Spec => []TypeOK
<1>1. Init => TypeOK
  BY NameTypes DEF Init, TypeOK, Color
<1>2. TypeOK /\ [Next]_vars => TypeOK'
  <2>1. TypeOK /\ UNCHANGED vars => TypeOK'
    BY DEF TypeOK, vars
  <2> QED BY <2>1, DeployTypes, StopTypes DEF Next
<1> QED BY <1>1, <1>2, PTL DEF Spec

-----------------------------------------------------------------------------
(* No port belongs to two previews.                                        *)

\* What the port of a script stands for: it is in the port file of the color
\* the script works on, a script that dropped that file has none, and neither
\* has a script that stops the preview; only deploys reserve.
Reserved(i) ==
  /\ script[i].port # 0 => port[Own(i)] = script[i].port
  /\ script[i].pc = "again" => port[Own(i)] = 0
  /\ script[i].op \in Stopping => script[i].port = 0
  /\ script[i].pc \in {"reserve", "check", "again", "start"} => script[i].op \in Deploying

Reservation == \A i \in Preview : Reserved(i)

\* The inductive invariant of both properties.
PortInv == Reservation /\ PortsDisjoint /\ StartFindsPortFree

\* A preview whose script does not move keeps its ports.
LEMMA OthersKeepPorts ==
  ASSUME TypeOK, NEW j \in Preview, script'[j] = script[j],
         \A c \in Color : port'[<<j, c>>] = port[<<j, c>>] /\ up'[<<j, c>>] = up[<<j, c>>]
  PROVE  Ports(j)' = Ports(j) /\ Own(j)' = Own(j) /\ port'[Own(j)] = port[Own(j)]
<1>1. PICK c \in Color : Own(j) = <<j, c>>
  BY DEF Own, TypeOK, Script
<1>2. Own(j)' = Own(j)
  BY DEF Own
<1>3. port'[Own(j)] = port[Own(j)]
  BY <1>1
<1>4. {port'[<<j, d>>] : d \in Color} = {port[<<j, d>>] : d \in Color}
  OBVIOUS
<1>5. {up'[<<j, d>>] : d \in Color} = {up[<<j, d>>] : d \in Color}
  OBVIOUS
<1>6. Ports(j)' = Ports(j)
  BY <1>4, <1>5 DEF Ports
<1> QED BY <1>2, <1>3, <1>6

\* A preview that takes no new port, and starts nothing on a port that is not
\* its own, keeps the invariant but for its own script.
LEMMA NoNewPort ==
  ASSUME TypeOK, PortInv, NEW i \in Preview, Ports(i)' \subseteq Ports(i),
         \A j \in Preview \ {i} :
           /\ script'[j] = script[j]
           /\ \A c \in Color : /\ port'[<<j, c>>] = port[<<j, c>>]
                               /\ up'[<<j, c>>] = up[<<j, c>>]
  PROVE  /\ PortsDisjoint'
         /\ \A j \in Preview \ {i} :
              /\ Reserved(j)'
              /\ script'[j].pc = "start" => script'[j].port \notin Listening'
<1>1. \A j \in Preview \ {i} :
        Ports(j)' = Ports(j) /\ Own(j)' = Own(j) /\ port'[Own(j)] = port[Own(j)]
  BY OthersKeepPorts
<1>2. PortsDisjoint'
  <2> SUFFICES ASSUME NEW j \in Preview, NEW k \in Preview, j # k
               PROVE  Ports(j)' \cap Ports(k)' = {}
    BY DEF PortsDisjoint
  <2>1. Ports(j)' \subseteq Ports(j) /\ Ports(k)' \subseteq Ports(k)
    BY <1>1
  <2> QED BY <2>1 DEF PortInv, PortsDisjoint
<1>3. ASSUME NEW j \in Preview \ {i}, script[j].pc = "start",
             script[j].port \in Listening'
      PROVE  FALSE
  <2>1. PICK n \in Name : up'[n] = script[j].port /\ up'[n] # 0
    BY <1>3 DEF Listening
  <2>2. PICK k \in Preview, c \in Color : n = <<k, c>>
    BY DEF Name
  <2>3. CASE k = i
    <3>1. up'[n] \in Ports(i)'
      BY <2>1, <2>2, <2>3 DEF Ports
    <3>2. up'[n] \in Ports(j)
      BY <2>1 DEF Ports
    <3> QED BY <3>1, <3>2 DEF PortInv, PortsDisjoint
  <2>4. CASE k # i
    <3>1. up'[n] = up[n]
      BY <2>2, <2>4
    <3>2. script[j].port \in Listening
      BY <2>1, <3>1 DEF Listening
    <3> QED BY <1>3, <3>2 DEF PortInv, StartFindsPortFree
  <2> QED BY <2>3, <2>4
<1>4. ASSUME NEW j \in Preview \ {i} PROVE Reserved(j)'
  BY <1>1 DEF PortInv, Reservation, Reserved
<1> QED BY <1>2, <1>3, <1>4

\* ... and keeps the invariant if its own script keeps to it too.
LEMMA KeepsPortInv ==
  ASSUME TypeOK, PortInv, NEW i \in Preview, Ports(i)' \subseteq Ports(i),
         \A j \in Preview \ {i} :
           /\ script'[j] = script[j]
           /\ \A c \in Color : /\ port'[<<j, c>>] = port[<<j, c>>]
                               /\ up'[<<j, c>>] = up[<<j, c>>],
         Reserved(i)',
         script'[i].pc = "start" => script'[i].port \notin Listening'
  PROVE  PortInv'
BY NoNewPort DEF PortInv, Reservation, StartFindsPortFree

\* The steps of a preview change no port file and no runtime of another one.
LEMMA OthersApart ==
  ASSUME TypeOK, NEW i \in Preview, NEW j \in Preview \ {i}, NEW c \in Color,
         NEW d \in Color
  PROVE  /\ <<j, c>> # <<i, d>> /\ <<j, c>> \in Name
         /\ <<j, c>> # Own(i) /\ <<j, c>> # Live(i) /\ <<j, c>> # Base(i)
BY DEF Own, Live, Base, Name

\* A reservation takes a port of the preview itself or a free one.
LEMMA ReserveKeepsPortInv ==
  ASSUME TypeOK, PortInv, NEW i \in Preview, Reserve(i)
  PROVE  PortInv'
<1>1. PICK p \in PortFor(Own(i)) :
        /\ port' = [port EXCEPT ![Own(i)] = p]
        /\ script' = [script EXCEPT ![i].port = p,
                        ![i].pc = IF @ = "reserve" THEN "stop" ELSE "start"]
  BY DEF Reserve
<1>2. /\ Own(i) \in Name /\ script \in [Preview -> Script] /\ up' = up
      /\ port \in [Name -> Port \cup {0}]
  BY NameTypes DEF TypeOK, Reserve
<1>3. p \in Port /\ p # 0 /\ (p = port[Own(i)] \/ (port[Own(i)] = 0 /\ p \in Free(Own(i))))
  BY <1>2, PortForType, PortAssumption
<1>4. /\ script'[i].port = p /\ script'[i].color = script[i].color
      /\ script'[i].op = script[i].op
      /\ script'[i].pc # "again" /\ script[i].pc \in {"reserve", "again"}
      /\ script'[i].pc = "start" => script[i].pc # "reserve"
  BY <1>1, <1>2 DEF Script, Reserve
<1>5. Own(i)' = Own(i) /\ port'[Own(i)] = p
  BY <1>1, <1>2, <1>4 DEF Own
<1>r. Reserved(i)'
  <2>1. script[i].op \in Deploying
    BY <1>4 DEF PortInv, Reservation, Reserved
  <2> QED BY <1>4, <1>5, <2>1 DEF Reserved, Deploying, Stopping
<1>6. \A j \in Preview \ {i} :
        /\ script'[j] = script[j]
        /\ \A c \in Color : /\ port'[<<j, c>>] = port[<<j, c>>]
                            /\ up'[<<j, c>>] = up[<<j, c>>]
  BY <1>1, <1>2, OthersApart
<1>7. Ports(i)' \subseteq Ports(i) \cup {p}
  BY <1>1, <1>2, <1>4 DEF Ports, Name
<1>8. CASE p = port[Own(i)]
  <2>1. \E c \in Color : Own(i) = <<i, c>>
    BY <1>2 DEF Own, Script
  <2>2. p \in Ports(i)
    BY <1>3, <1>8, <2>1 DEF Ports
  <2>3. script[i].pc # "again"
    BY <1>3, <1>8 DEF PortInv, Reservation, Reserved
  <2>4. script'[i].pc # "start"
    BY <1>4, <2>3
  <2> QED BY <1>r, <1>6, <1>7, <2>2, <2>4, KeepsPortInv
<1>9. CASE p \in Free(Own(i))
  <2>1. p \notin Listening /\ \A m \in Name \ {Own(i)} : port[m] # p
    BY <1>9 DEF Free
  <2>2. \A j \in Preview \ {i} : p \notin Ports(j)
    <3> SUFFICES ASSUME NEW j \in Preview \ {i}, p \in Ports(j) PROVE FALSE
      OBVIOUS
    <3>1. \A c \in Color : <<j, c>> \in Name /\ <<j, c>> # Own(i)
      BY OthersApart
    <3>2. \A c \in Color : port[<<j, c>>] # p /\ up[<<j, c>>] # p
      BY <1>3, <2>1, <3>1 DEF Listening
    <3>3. script[j].port = p
      BY <3>2 DEF Ports
    <3>4. port[Own(j)] = p /\ \E c \in Color : Own(j) = <<j, c>>
      BY <1>2, <1>3, <3>3 DEF PortInv, Reservation, Reserved, Own, Script
    <3> QED BY <3>2, <3>4
  <2>3. \A j \in Preview \ {i} :
          Ports(j)' = Ports(j) /\ Own(j)' = Own(j) /\ port'[Own(j)] = port[Own(j)]
    BY <1>6, OthersKeepPorts
  <2>4. PortsDisjoint'
    <3> SUFFICES ASSUME NEW j \in Preview, NEW k \in Preview, j # k
                 PROVE  Ports(j)' \cap Ports(k)' = {}
      BY DEF PortsDisjoint
    <3>1. Ports(j) \cap Ports(k) = {}
      BY DEF PortInv, PortsDisjoint
    <3> QED BY <1>7, <2>2, <2>3, <3>1
  <2>5. Reservation'
    <3>1. ASSUME NEW j \in Preview \ {i} PROVE Reserved(j)'
      BY <1>6, <2>3 DEF PortInv, Reservation, Reserved
    <3> QED BY <1>r, <3>1 DEF Reservation
  <2>6. StartFindsPortFree'
    <3> SUFFICES ASSUME NEW j \in Preview, script'[j].pc = "start"
                 PROVE  script'[j].port \notin Listening'
      BY DEF StartFindsPortFree
    <3>1. Listening' = Listening
      BY <1>2 DEF Listening
    <3> QED BY <1>4, <1>6, <2>1, <3>1 DEF PortInv, StartFindsPortFree
  <2> QED BY <2>4, <2>5, <2>6 DEF PortInv
<1> QED BY <1>3, <1>8, <1>9

\* The ports a preview has, and when it takes no new one.
LEMMA InPorts ==
  ASSUME TypeOK, NEW i \in Preview
  PROVE  /\ script[i].port \in Ports(i) \cup {0}
         /\ \A c \in Color : /\ port[<<i, c>>] \in Ports(i) \cup {0}
                             /\ up[<<i, c>>] \in Ports(i) \cup {0}
BY DEF Ports

\* A step after which files, runtimes and script hold only ports the preview had
\* takes no new port.
LEMMA NoneTaken ==
  ASSUME NEW i \in Preview, script'[i].port \in Ports(i) \cup {0},
         \A c \in Color : /\ port'[<<i, c>>] \in Ports(i) \cup {0}
                          /\ up'[<<i, c>>] \in Ports(i) \cup {0}
  PROVE  Ports(i)' \subseteq Ports(i)
BY DEF Ports

\* Every other step of a deploy keeps to the ports it has reserved.
LEMMA DeployKeepsPortInv ==
  ASSUME TypeOK, PortInv, NEW i \in Preview,
         \/ \E op \in Op : Begin(i, op)
         \/ StopOwn(i) \/ Check(i) \/ Start(i) \/ WriteLocation(i)
         \/ Reload(i) \/ Record(i) \/ Fails(i) \/ Kill(i)
  PROVE  PortInv'
<1>0. /\ Own(i) \in Name /\ Live(i) \in Name /\ Base(i) \in Name
      /\ script \in [Preview -> Script] /\ port \in [Name -> Port \cup {0}]
      /\ up \in [Name -> Port \cup {0}] /\ Reserved(i)
  BY NameTypes DEF TypeOK, PortInv, Reservation
<1>i. /\ script[i].port \in Ports(i) \cup {0}
      /\ \A c \in Color : /\ port[<<i, c>>] \in Ports(i) \cup {0}
                          /\ up[<<i, c>>] \in Ports(i) \cup {0}
                          /\ <<i, c>> \in Name
  BY InPorts DEF Name
<1>a. \A j \in Preview \ {i} : \A c \in Color :
        <<j, c>> # Own(i) /\ <<j, c>> # Live(i) /\ <<j, c>> # Base(i)
          /\ <<j, c>> \in Name
  BY OthersApart
<1>2. ASSUME NEW op \in Op, Begin(i, op) PROVE PortInv'
  <2>1. Ports(i)' \subseteq Ports(i)
    BY <1>0, <1>i, <1>2, NoneTaken DEF Begin
  <2>2. Reserved(i)'
    BY <1>0, <1>2 DEF Begin, Reserved, Deploying, Stopping
  <2> QED BY <1>0, <1>2, <2>1, <2>2, KeepsPortInv DEF Begin
<1>3. CASE StopOwn(i)
  <2>1. Ports(i)' \subseteq Ports(i)
    BY <1>0, <1>i, <1>3, NoneTaken DEF StopOwn, Goto
  <2>2. Reserved(i)'
    BY <1>0, <1>3 DEF StopOwn, Goto, Reserved, Own, Script
  <2> QED BY <1>0, <1>a, <1>3, <2>1, <2>2, KeepsPortInv DEF StopOwn, Goto
<1>4. CASE Check(i)
  <2>0. /\ up' = up
        /\ \/ /\ port' = port /\ script'[i].port = script[i].port
              /\ script[i].port \notin Listening
           \/ /\ port' = [port EXCEPT ![Own(i)] = 0]
              /\ script'[i].port = 0 /\ script'[i].pc = "again"
    BY <1>0, <1>4 DEF Check, Goto, Script
  <2>1. Ports(i)' \subseteq Ports(i)
    BY <1>0, <1>i, <2>0, NoneTaken
  <2>2. Reserved(i)'
    BY <1>0, <1>4 DEF Check, Goto, Reserved, Own, Script
  <2>3. script'[i].pc = "start" => script'[i].port \notin Listening'
    BY <2>0 DEF Listening
  <2> QED BY <1>0, <1>a, <1>4, <2>1, <2>2, <2>3, KeepsPortInv DEF Check, Goto
<1>5. CASE Start(i)
  <2>1. Ports(i)' \subseteq Ports(i)
    BY <1>0, <1>i, <1>5, NoneTaken DEF Start, Goto
  <2>2. Reserved(i)'
    BY <1>0, <1>5 DEF Start, Goto, Reserved, Own, Script
  <2> QED BY <1>0, <1>a, <1>5, <2>1, <2>2, KeepsPortInv DEF Start, Goto
<1>6. CASE WriteLocation(i) \/ Reload(i)
  <2>1. /\ port' = port /\ up' = up
        /\ \E pc \in {"reload", "settle", "record"} : Goto(i, pc)
    BY <1>6 DEF WriteLocation, Reload
  <2>2. Ports(i)' \subseteq Ports(i)
    BY <1>0, <1>i, <2>1, NoneTaken DEF Goto
  <2>3. Reserved(i)'
    BY <1>0, <2>1 DEF Goto, Reserved, Own, Script
  <2> QED BY <1>0, <2>1, <2>2, <2>3, KeepsPortInv DEF Goto
<1>7. CASE Record(i)
  <2>1. /\ port' = [port EXCEPT ![Base(i)] = script[i].port]
        /\ \A n \in Name : up'[n] = up[n] \/ (n = Live(i) /\ up'[n] = 0)
        /\ \E pc \in {"meta", "settle"} : Goto(i, pc)
    BY <1>0, <1>7 DEF Record
  <2>2. Ports(i)' \subseteq Ports(i)
    BY <1>0, <1>i, <2>1, NoneTaken DEF Goto
  <2>3. Reserved(i)'
    BY <1>0, <2>1 DEF Goto, Reserved, Own, Script
  <2> QED BY <1>0, <1>a, <2>1, <2>2, <2>3, KeepsPortInv DEF Goto
<1>8. CASE Fails(i)
  <2>1. /\ port' = port /\ End(i)
        /\ up' = up \/ up' = [up EXCEPT ![Own(i)] = script[i].port]
    BY <1>8 DEF Fails
  <2>2. Ports(i)' \subseteq Ports(i)
    BY <1>0, <1>i, <2>1, NoneTaken DEF End, NoScript
  <2>3. Reserved(i)'
    BY <1>0, <2>1 DEF End, NoScript, Reserved, Stopping
  <2> QED BY <1>0, <1>a, <2>1, <2>2, <2>3, KeepsPortInv DEF End, NoScript
<1>9. CASE Kill(i)
  <2>1. /\ port' = port /\ up' = up
        /\ End(i) \/ Run(i, "abort", "stop") \/ Run(i, "pause", "stop")
    BY <1>9 DEF Kill
  <2>a. script'[i].port = 0 /\ script'[i].pc \in {"idle", "stop"}
    BY <1>0, <2>1 DEF End, NoScript, Run, Script
  <2>b. \A j \in Preview \ {i} : script'[j] = script[j]
    BY <1>0, <2>1 DEF End, Run
  <2>2. Ports(i)' \subseteq Ports(i)
    BY <1>i, <2>1, <2>a, NoneTaken
  <2>3. Reserved(i)'
    BY <2>a DEF Reserved
  <2> QED BY <2>1, <2>a, <2>b, <2>2, <2>3, KeepsPortInv
<1> QED BY <1>2, <1>3, <1>4, <1>5, <1>6, <1>7, <1>8, <1>9

\* ... and so does every step of the other scripts and of the API.
LEMMA StopKeepsPortInv ==
  ASSUME TypeOK, PortInv, NEW i \in Preview,
         \/ \E op \in Op : BeginStop(i, op)
         \/ Healthy(i) \/ Unhealthy(i) \/ PromoteFails(i) \/ Abort(i)
         \/ StopBoth(i) \/ RemoveFiles(i) \/ StopFails(i) \/ Settle(i)
  PROVE  PortInv'
<1>0. /\ Own(i) \in Name
      /\ script \in [Preview -> Script] /\ port \in [Name -> Port \cup {0}]
      /\ up \in [Name -> Port \cup {0}] /\ Reserved(i)
  BY NameTypes DEF TypeOK, PortInv, Reservation
<1>i. /\ script[i].port \in Ports(i) \cup {0}
      /\ \A c \in Color : /\ port[<<i, c>>] \in Ports(i) \cup {0}
                          /\ up[<<i, c>>] \in Ports(i) \cup {0}
                          /\ <<i, c>> \in Name
  BY InPorts DEF Name
<1>a. \A j \in Preview \ {i} : \A c \in Color :
        <<j, c>> # Own(i) /\ <<j, c>> \in Name /\ <<j, c>>[1] = j
  BY OthersApart
<1>1. CASE /\ port' = port /\ up' = up
           /\ \E op \in Op, pc \in {"stop", "location"} :
                /\ Run(i, op, pc)
                /\ op \in Stopping \cup {"abort"} \/ script[i].op = "staging"
  <2>1. PICK op \in Op, pc \in {"stop", "location"} :
          /\ Run(i, op, pc)
          /\ op \in Stopping \cup {"abort"} \/ script[i].op = "staging"
    BY <1>1
  <2>2. Ports(i)' \subseteq Ports(i)
    BY <1>0, <1>i, <1>1, <2>1, NoneTaken DEF Run
  <2>3. Reserved(i)'
    BY <1>0, <1>1, <2>1 DEF Run, Reserved, Own, Stopping, Script
  <2> QED BY <1>0, <1>1, <2>1, <2>2, <2>3, KeepsPortInv DEF Run
<1>2. CASE /\ port' = port /\ End(i)
           /\ up' = up \/ up' = [up EXCEPT ![Own(i)] = 0]
  <2>1. Ports(i)' \subseteq Ports(i)
    BY <1>0, <1>i, <1>2, NoneTaken DEF End, NoScript
  <2>2. Reserved(i)'
    BY <1>0, <1>2 DEF End, NoScript, Reserved, Stopping
  <2> QED BY <1>0, <1>a, <1>2, <2>1, <2>2, KeepsPortInv DEF End, NoScript
<1>3. CASE StopBoth(i)
  <2>1. Ports(i)' \subseteq Ports(i)
    BY <1>0, <1>i, <1>3, NoneTaken DEF StopBoth, Goto
  <2>2. Reserved(i)'
    BY <1>0, <1>3 DEF StopBoth, Goto, Reserved, Own, Script
  <2> QED BY <1>0, <1>a, <1>3, <2>1, <2>2, KeepsPortInv DEF StopBoth, Goto
<1>4. CASE RemoveFiles(i)
  <2>1. /\ up' = up /\ Goto(i, "reload")
        /\ \/ port' = port
           \/ /\ script[i].op = "destroy"
              /\ port' = [n \in Name |-> IF n[1] = i THEN 0 ELSE port[n]]
    BY <1>4 DEF RemoveFiles
  <2>2. Ports(i)' \subseteq Ports(i)
    BY <1>0, <1>i, <2>1, NoneTaken DEF Goto
  <2>3. Reserved(i)'
    BY <1>0, <2>1 DEF Goto, Reserved, Own, Stopping, Script
  <2> QED BY <1>0, <1>a, <2>1, <2>2, <2>3, KeepsPortInv DEF Goto
<1>5. ASSUME NEW op \in Op, BeginStop(i, op) PROVE PortInv'
  BY <1>1, <1>5 DEF BeginStop
<1>6. CASE Healthy(i)
  BY <1>1, <1>2, <1>6 DEF Healthy, ProbeOk, Op
<1>7. CASE Unhealthy(i)
  BY <1>1, <1>7 DEF Unhealthy, Op, Stopping
<1>8. CASE PromoteFails(i)
  BY <1>1, <1>8 DEF PromoteFails, Op
<1>9. CASE Abort(i)
  BY <1>2, <1>9 DEF Abort
<1>10. CASE StopFails(i) \/ Settle(i)
  BY <1>2, <1>10 DEF StopFails, Settle
<1> QED BY <1>3, <1>4, <1>5, <1>6, <1>7, <1>8, <1>9, <1>10

\* The invariant of the ports holds of every state.
LEMMA PortInvariant == Spec => []PortInv
<1>1. Init => PortInv
  <2> SUFFICES ASSUME Init PROVE PortInv
    OBVIOUS
  <2>1. /\ \A i \in Preview : script[i] = NoScript
        /\ \A n \in Name : port[n] = 0 /\ up[n] = 0
    BY DEF Init
  <2>2. ASSUME NEW i \in Preview PROVE Ports(i) = {} /\ Reserved(i)
    <3>1. script[i].port = 0 /\ script[i].pc = "idle" /\ script[i].op = "none"
      BY <2>1 DEF NoScript
    <3>2. \A c \in Color : port[<<i, c>>] = 0 /\ up[<<i, c>>] = 0
      BY <2>1 DEF Name
    <3>3. Ports(i) = {}
      BY <3>1, <3>2 DEF Ports
    <3> QED BY <3>1, <3>3 DEF Reserved
  <2> QED BY <2>1, <2>2 DEF PortInv, Reservation, PortsDisjoint,
                            StartFindsPortFree, NoScript
<1>2. TypeOK /\ PortInv /\ [Next]_vars => PortInv'
  <2>1. TypeOK /\ PortInv /\ UNCHANGED vars => PortInv'
    <3> SUFFICES ASSUME PortInv, UNCHANGED vars PROVE PortInv'
      OBVIOUS
    <3>1. port' = port /\ up' = up /\ script' = script
      BY DEF vars
    <3>2. \A i \in Preview : (Reserved(i)' <=> Reserved(i)) /\ Ports(i)' = Ports(i)
      BY <3>1 DEF Reserved, Ports, Own
    <3>3. Listening' = Listening
      BY <3>1 DEF Listening
    <3> QED BY <3>1, <3>2, <3>3 DEF PortInv, Reservation, PortsDisjoint,
                                    StartFindsPortFree
  <2> QED BY <2>1, ReserveKeepsPortInv, DeployKeepsPortInv, StopKeepsPortInv DEF Next
<1> QED BY <1>1, <1>2, ScriptsTypeCorrect, PTL DEF Spec

\* reserve_free_port "never takes a port of another preview": whatever scripts
\* run side by side, are killed or fail, no port is two previews'.
THEOREM PortsStayDisjoint == Spec => []PortsDisjoint
BY PortInvariant, PTL DEF PortInv

\* Between deploy.sh's check of its port and the start of the runtime, nothing
\* else takes the port.
THEOREM StartsOnFreePort == Spec => []StartFindsPortFree
BY PortInvariant, PTL DEF PortInv

-----------------------------------------------------------------------------
(* Where the URL of a preview leads.                                       *)

\* The steps of each script, and the color it works on.
Placed(i) ==
  LET op == script[i].op
      pc == script[i].pc
      color == script[i].color IN
  \/ op = "none" /\ pc = "idle"
  \/ /\ op = "classic" /\ color = live[i]
     /\ pc \in {"reserve", "stop", "check", "again", "start", "location", "reload",
                "record", "meta"}
  \/ /\ op = "staging" /\ color # live[i]
     /\ pc \in {"reserve", "stop", "check", "again", "start", "meta"}
  \/ op = "promote" /\ color # live[i] /\ pc \in {"location", "reload", "record"}
  \/ op = "promote" /\ color = live[i] /\ pc = "settle"
  \/ op = "abort" /\ color # live[i] /\ pc = "stop"
  \/ op \in Stopping /\ pc \in {"stop", "files", "reload", "settle"}

\* The script has a port, and its runtime is down or up, as its step says.
Equipped(i) ==
  LET op == script[i].op
      pc == script[i].pc IN
  /\ op \in Deploying \cup {"promote"} /\ pc \notin {"reserve", "again"} =>
       script[i].port # 0
  /\ pc \in {"check", "again", "start"} => up[Own(i)] = 0
  /\ op \notin Stopping /\ pc \in {"location", "reload", "record", "meta", "settle"} =>
       up[Own(i)] = script[i].port
  /\ op \in Stopping /\ pc # "stop" => \A c \in Color : up[<<i, c>>] = 0

\* The live color runs on the port of its file, the other one on another.
ColorsApart(i) ==
  /\ up[Live(i)] # 0 => port[Live(i)] = up[Live(i)]
  /\ \A c \in Color : c # live[i] /\ up[<<i, c>>] # 0 => up[<<i, c>>] # port[Live(i)]

\* The ports the URL of i may lead to: the live one, during a promotion the
\* staged one, and after a refused promotion, until the next deploy, the aborted
\* one.
Leading(i) ==
  {0, Api, port[Live(i)]}
    \cup (IF script[i].op = "promote" THEN {script[i].port} ELSE {})
    \cup (IF "promote" \in Failures /\ row[i] # "active"
          THEN {port[<<i, c>>] : c \in Color} ELSE {})

\* The location file and the configuration nginx has loaded lead there; nginx
\* has loaded the file, unless a script is about to reload, or one that was
\* killed before it did has left an URL that serves nothing.
Leads(i) ==
  LET op == script[i].op
      pc == script[i].pc IN
  /\ file[i] \in Leading(i)
  /\ (op = "destroy" /\ pc = "reload") \/ loaded[i] \in Leading(i)
  /\ "promote" \in Failures \/ pc = "reload" \/ loaded[i] \in {0, Api, file[i]}
  /\ op \notin Stopping /\ pc \in {"reload", "record"} => file[i] = script[i].port
  /\ op = "classic" /\ pc = "meta" => file[i] = script[i].port
  /\ op \notin Stopping /\ pc \in {"record", "meta", "settle"} => loaded[i] = file[i]

\* An active row is served by its live color, but for a flip under way.
ActiveServed(i) ==
  LET op == script[i].op
      pc == script[i].pc IN
  /\ op = "classic" => row[i] = "down"
  /\ op \in {"staging", "promote"} => row[i] = "active"
  /\ op = "abort" /\ "promote" \notin Failures => row[i] = "active"
  /\ row[i] = "active" /\ (op \notin Stopping \/ pc = "stop") /\ pc # "record" =>
       /\ up[Live(i)] # 0
       /\ loaded[i] = up[Live(i)] \/ (pc = "reload" /\ loaded[i] = script[i].port)
       /\ file[i] = up[Live(i)] \/ (pc = "reload" /\ file[i] = script[i].port)

UrlFits(i) ==
  Placed(i) /\ Equipped(i) /\ ColorsApart(i) /\ Leads(i) /\ ActiveServed(i)
UrlInv == \A i \in Preview : UrlFits(i)


\* What a preview has that no script of another one changes.
LEMMA OthersStay ==
  ASSUME TypeOK, NEW i \in Preview, NEW j \in Preview \ {i},
         \/ \E op \in Op : Begin(i, op) \/ BeginStop(i, op)
         \/ Reserve(i) \/ StopOwn(i) \/ Check(i) \/ Start(i) \/ WriteLocation(i)
         \/ Reload(i) \/ Record(i) \/ Fails(i) \/ Kill(i)
         \/ Healthy(i) \/ Unhealthy(i) \/ PromoteFails(i) \/ Abort(i)
         \/ StopBoth(i) \/ RemoveFiles(i) \/ StopFails(i) \/ Settle(i)
  PROVE  /\ script'[j] = script[j] /\ live'[j] = live[j] /\ row'[j] = row[j]
         /\ file'[j] = file[j]
         /\ \A c \in Color : /\ port'[<<j, c>>] = port[<<j, c>>]
                             /\ up'[<<j, c>>] = up[<<j, c>>]
         /\ loaded'[j] = loaded[j] \/ (Reload(i) /\ loaded'[j] = file[j])
<1>0. /\ script \in [Preview -> Script] /\ live \in [Preview -> Color]
      /\ row \in [Preview -> {"none", "down", "active"}]
      /\ file \in [Preview -> Port \cup {0, Api}]
      /\ port \in [Name -> Port \cup {0}] /\ up \in [Name -> Port \cup {0}]
  BY DEF TypeOK
<1>a. \A c \in Color : /\ <<j, c>> # Own(i) /\ <<j, c>> # Live(i) /\ <<j, c>> # Base(i)
                       /\ <<j, c>> \in Name /\ <<j, c>>[1] # i
  BY OthersApart
<1>g. /\ \A pc \in PC : Goto(i, pc) => script'[j] = script[j]
      /\ \A op \in Op, pc \in PC : Run(i, op, pc) => script'[j] = script[j]
      /\ End(i) => script'[j] = script[j]
  BY <1>0 DEF Goto, Run, End
<1>p. /\ {"reserve", "stop", "check", "again", "start", "meta", "location", "reload",
          "record", "settle", "files", "idle"} \subseteq PC
      /\ {"abort", "pause", "promote"} \subseteq Op
  BY DEF PC, Op
<1>1. ASSUME NEW op \in Op, Begin(i, op) \/ BeginStop(i, op)
      PROVE  /\ script'[j] = script[j] /\ row'[j] = row[j]
             /\ UNCHANGED <<port, up, live, file, loaded>>
  BY <1>0, <1>1, <1>g, <1>p DEF Begin, BeginStop
<1>2. CASE Reserve(i)
  BY <1>0, <1>a, <1>2 DEF Reserve
<1>3. CASE StopOwn(i) \/ Start(i) \/ Abort(i) \/ StopBoth(i)
  <2>1. UNCHANGED <<port, live, file, loaded, row>>
    BY <1>3 DEF StopOwn, Start, Abort, StopBoth
  <2>2. script'[j] = script[j]
    BY <1>3, <1>g, <1>p DEF StopOwn, Start, Abort, StopBoth
  <2>3. \A c \in Color : up'[<<j, c>>] = up[<<j, c>>]
    BY <1>0, <1>3, <1>a DEF StopOwn, Start, Abort, StopBoth
  <2> QED BY <2>1, <2>2, <2>3
<1>4. CASE Check(i)
  <2>1. script'[j] = script[j]
    BY <1>0, <1>4, <1>g, <1>p DEF Check
  <2>2. \A c \in Color : port'[<<j, c>>] = port[<<j, c>>]
    BY <1>0, <1>a, <1>4 DEF Check
  <2> QED BY <1>4, <2>1, <2>2 DEF Check
<1>5. CASE WriteLocation(i) \/ Reload(i)
  <2>1. script'[j] = script[j]
    BY <1>5, <1>g, <1>p DEF WriteLocation, Reload
  <2> QED BY <1>0, <1>5, <2>1 DEF WriteLocation, Reload
<1>6. CASE Record(i)
  <2>1. script'[j] = script[j]
    BY <1>6, <1>g, <1>p DEF Record
  <2>2. \A c \in Color : port'[<<j, c>>] = port[<<j, c>>] /\ up'[<<j, c>>] = up[<<j, c>>]
    BY <1>0, <1>a, <1>6 DEF Record
  <2> QED BY <1>0, <1>6, <2>1, <2>2 DEF Record
<1>7. CASE Fails(i)
  <2>1. \A c \in Color : up'[<<j, c>>] = up[<<j, c>>]
    BY <1>0, <1>a, <1>7 DEF Fails
  <2> QED BY <1>7, <1>g, <2>1 DEF Fails
<1>8. CASE Kill(i) \/ Healthy(i) \/ Unhealthy(i) \/ PromoteFails(i) \/ StopFails(i)
            \/ Settle(i)
  <2>1. script'[j] = script[j]
    BY <1>8, <1>g, <1>p DEF Kill, Healthy, ProbeOk, Unhealthy, PromoteFails, StopFails, Settle
  <2>2. UNCHANGED <<port, up, live, file, loaded>> /\ row'[j] = row[j]
    BY <1>0, <1>8 DEF Kill, Healthy, ProbeOk, Unhealthy, PromoteFails, StopFails, Settle
  <2> QED BY <2>1, <2>2
<1>9. CASE RemoveFiles(i)
  <2>1. script'[j] = script[j]
    BY <1>9, <1>g, <1>p DEF RemoveFiles
  <2>2. \A c \in Color : port'[<<j, c>>] = port[<<j, c>>]
    BY <1>0, <1>a, <1>9 DEF RemoveFiles
  <2> QED BY <1>0, <1>9, <2>1, <2>2 DEF RemoveFiles
<1> QED BY <1>1, <1>2, <1>3, <1>4, <1>5, <1>6, <1>7, <1>8, <1>9

\* Nothing another preview's script does, its reload of nginx included, takes a
\* preview out of the invariant.
LEMMA OthersFit ==
  ASSUME TypeOK, NEW j \in Preview, UrlFits(j),
         script'[j] = script[j], live'[j] = live[j], row'[j] = row[j],
         file'[j] = file[j], loaded'[j] \in {loaded[j], file[j]},
         \A c \in Color : /\ port'[<<j, c>>] = port[<<j, c>>]
                          /\ up'[<<j, c>>] = up[<<j, c>>]
  PROVE  UrlFits(j)'
<1>0. /\ Own(j)' = Own(j) /\ Live(j)' = Live(j)
      /\ port'[Live(j)] = port[Live(j)] /\ up'[Live(j)] = up[Live(j)]
      /\ up'[Own(j)] = up[Own(j)]
  BY DEF Own, Live, TypeOK, Script
<1>1. Placed(j)' /\ Equipped(j)'
  BY <1>0 DEF UrlFits, Placed, Equipped
<1>2. ColorsApart(j)'
  BY <1>0 DEF UrlFits, ColorsApart
<1>3. Leading(j)' = Leading(j)
  BY <1>0 DEF Leading
<1>4. Leads(j)'
  BY <1>0, <1>3 DEF UrlFits, Leads
<1>5. ActiveServed(j)'
  BY <1>0 DEF UrlFits, ActiveServed
<1> QED BY <1>1, <1>2, <1>4, <1>5 DEF UrlFits


\* The state of one preview, as the lemmas about its own steps use it.
LEMMA OneTypes ==
  ASSUME TypeOK, NEW i \in Preview
  PROVE  /\ script \in [Preview -> Script] /\ live \in [Preview -> Color]
         /\ row \in [Preview -> {"none", "down", "active"}]
         /\ file \in [Preview -> Port \cup {0, Api}]
         /\ loaded \in [Preview -> Port \cup {0, Api}]
         /\ port \in [Name -> Port \cup {0}] /\ up \in [Name -> Port \cup {0}]
         /\ Own(i) = <<i, script[i].color>> /\ Live(i) = <<i, live[i]>>
         /\ script[i].color \in Color /\ live[i] \in Color
         /\ \A c \in Color : <<i, c>> \in Name
         /\ script[i].pc \in PC /\ script[i].op \in Op
         /\ script[i].port \in Port \cup {0} /\ script[i] \in Script
BY DEF TypeOK, Script, Own, Live, Name

\* A step that moves a script on, to an operation that does not take the color
\* of the preview down, and may end it.
LEMMA BeginFits ==
  ASSUME TypeOK, PortInv, NEW i \in Preview, UrlFits(i), NEW op \in Op, Begin(i, op)
  PROVE  UrlFits(i)'
<1>0. /\ script[i].pc = "idle" /\ script[i].op = "none" /\ op \in Deploying
      /\ script'[i].pc = "reserve" /\ script'[i].op = op /\ script'[i].port = 0
      /\ script'[i].color = IF op = "classic" THEN live[i] ELSE Opposite(live[i])
      /\ row'[i] = IF op = "classic" THEN "down" ELSE row[i]
      /\ op = "staging" => row[i] = "active"
      /\ UNCHANGED <<port, up, live, file, loaded>>
  BY OneTypes DEF Begin, UrlFits, Placed, Deploying, Stopping
<1>1. Opposite(live[i]) # live[i]
  BY OneTypes DEF Opposite, Color
<1>2. Placed(i)' /\ Equipped(i)'
  BY <1>0, <1>1 DEF Placed, Equipped, Deploying, Stopping
<1>3. Live(i)' = Live(i) /\ Leading(i) \subseteq Leading(i)'
  BY <1>0 DEF Live, Leading, Deploying
<1>4. ColorsApart(i)'
  BY <1>0, <1>3 DEF UrlFits, ColorsApart
<1>5. Leads(i)'
  BY <1>0, <1>3 DEF UrlFits, Leads, Deploying, Stopping
<1>6. ActiveServed(i)'
  BY <1>0, <1>3 DEF UrlFits, ActiveServed, Deploying, Stopping
<1> QED BY <1>2, <1>4, <1>5, <1>6 DEF UrlFits

\* A reservation gives the color a port nothing listens on, or leaves it its own.
LEMMA ReserveFits ==
  ASSUME TypeOK, PortInv, NEW i \in Preview, UrlFits(i), Reserve(i)
  PROVE  UrlFits(i)'
<1>t. /\ script \in [Preview -> Script] /\ port \in [Name -> Port \cup {0}]
      /\ up \in [Name -> Port \cup {0}]
      /\ Own(i) = <<i, script[i].color>> /\ Live(i) = <<i, live[i]>>
      /\ script[i].color \in Color /\ live[i] \in Color /\ script[i] \in Script
      /\ \A c \in Color : <<i, c>> \in Name
  BY OneTypes
<1>1. PICK p \in PortFor(Own(i)) :
        /\ port' = [port EXCEPT ![Own(i)] = p]
        /\ script' = [script EXCEPT ![i].port = p,
                        ![i].pc = IF @ = "reserve" THEN "stop" ELSE "start"]
  BY DEF Reserve
<1>2. p \in Port /\ p # 0 /\ (p = port[Own(i)] \/ (port[Own(i)] = 0 /\ p \notin Listening))
  BY <1>t, PortForType, PortAssumption DEF Free
<1>3. /\ script[i].pc \in {"reserve", "again"} /\ script[i].op \in Deploying
      /\ script'[i].pc = IF script[i].pc = "reserve" THEN "stop" ELSE "start"
      /\ script'[i].op = script[i].op /\ script'[i].port = p
      /\ script'[i].color = script[i].color /\ Own(i)' = Own(i) /\ Live(i)' = Live(i)
      /\ UNCHANGED <<up, live, file, loaded, row>>
  BY <1>1, <1>t DEF Reserve, PortInv, Reservation, Reserved, Script, Own, Live
<1>4. \A c \in Color : up[<<i, c>>] # 0 => up[<<i, c>>] \in Listening
  BY <1>t DEF Listening
<1>5. \A c \in Color : port'[<<i, c>>] = IF c = script[i].color THEN p ELSE port[<<i, c>>]
  BY <1>1, <1>t
<1>6. Placed(i)'
  BY <1>3 DEF UrlFits, Placed, Deploying, Stopping
<1>7. Equipped(i)'
  BY <1>2, <1>3 DEF UrlFits, Equipped, Deploying, Stopping
<1>8. port[Live(i)] = 0 \/ port'[Live(i)] = port[Live(i)]
  BY <1>2, <1>5, <1>t
<1>9. ColorsApart(i)'
  <2>1. port'[Live(i)] = port[Live(i)] \/ port'[Live(i)] \notin Listening
    BY <1>2, <1>5, <1>t
  <2>2. up[Live(i)] # 0 => port[Live(i)] # 0
    BY DEF UrlFits, ColorsApart
  <2> QED BY <1>3, <1>4, <1>8, <2>1, <2>2 DEF UrlFits, ColorsApart
<1>10. Leading(i) \subseteq Leading(i)'
  <2>1. script[i].op = "staging" => row[i] = "active"
    BY DEF UrlFits, ActiveServed
  <2>2. script[i].op = "classic" => \A c \in Color : port[<<i, c>>] \in {0, port'[<<i, c>>]}
    BY <1>2, <1>5, <1>t
  <2> QED BY <1>3, <1>8, <2>1, <2>2 DEF Leading, Deploying
<1>11. Leads(i)'
  <2>1. /\ file'[i] \in Leading(i)' /\ loaded'[i] \in Leading(i)'
    BY <1>3, <1>10 DEF UrlFits, Leads, Deploying
  <2> QED BY <1>3, <2>1 DEF UrlFits, Leads, Deploying
<1>12. ActiveServed(i)'
  BY <1>3 DEF UrlFits, ActiveServed, Deploying, Stopping
<1> QED BY <1>6, <1>7, <1>9, <1>11, <1>12 DEF UrlFits

\* The color of the run stops; a zero-downtime run leaves the live one alone.
LEMMA StopOwnFits ==
  ASSUME TypeOK, PortInv, NEW i \in Preview, UrlFits(i), StopOwn(i)
  PROVE  UrlFits(i)'
<1>t. /\ script \in [Preview -> Script] /\ up \in [Name -> Port \cup {0}]
      /\ Own(i) = <<i, script[i].color>> /\ Live(i) = <<i, live[i]>>
      /\ script[i].color \in Color /\ live[i] \in Color /\ script[i] \in Script
      /\ \A c \in Color : <<i, c>> \in Name
  BY OneTypes
<1>1. /\ script[i].pc = "stop" /\ script[i].op \in Deploying
      /\ script'[i].pc = "check" /\ script'[i].op = script[i].op
      /\ script'[i].port = script[i].port /\ script'[i].color = script[i].color
      /\ Own(i)' = Own(i) /\ Live(i)' = Live(i)
      /\ UNCHANGED <<port, live, file, loaded, row>>
  BY <1>t DEF StopOwn, Goto, Script, Own, Live
<1>2. \A c \in Color : up'[<<i, c>>] = IF c = script[i].color THEN 0 ELSE up[<<i, c>>]
  BY <1>t DEF StopOwn
<1>3. Placed(i)'
  BY <1>1 DEF UrlFits, Placed, Deploying, Stopping
<1>4. Equipped(i)'
  BY <1>1, <1>2, <1>t DEF UrlFits, Equipped, Deploying, Stopping
<1>5. ColorsApart(i)'
  BY <1>1, <1>2, <1>t DEF UrlFits, ColorsApart
<1>6. Leads(i)'
  <2>1. Leading(i)' = Leading(i)
    BY <1>1 DEF Leading
  <2> QED BY <1>1, <2>1 DEF UrlFits, Leads, Deploying
<1>7. ActiveServed(i)'
  <2>1. script[i].op = "classic" => row[i] = "down"
    BY DEF UrlFits, ActiveServed
  <2>2. script[i].op = "staging" => up'[Live(i)] = up[Live(i)]
    BY <1>1, <1>2, <1>t DEF UrlFits, Placed, Stopping
  <2> QED BY <1>1, <2>1, <2>2 DEF UrlFits, ActiveServed, Deploying, Stopping
<1> QED BY <1>3, <1>4, <1>5, <1>6, <1>7 DEF UrlFits

\* The check drops the port of a staging color only: the live one's is nobody
\* else's, and its own runtime has been stopped.
LEMMA CheckFits ==
  ASSUME TypeOK, PortInv, NEW i \in Preview, UrlFits(i), Check(i)
  PROVE  UrlFits(i)'
<1>t. /\ script \in [Preview -> Script] /\ port \in [Name -> Port \cup {0}]
      /\ Own(i) = <<i, script[i].color>> /\ Live(i) = <<i, live[i]>>
      /\ script[i].color \in Color /\ live[i] \in Color /\ script[i] \in Script
      /\ \A c \in Color : <<i, c>> \in Name
  BY OneTypes
<1>1. /\ script[i].pc = "check" /\ script[i].op \in Deploying
      /\ script[i].port # 0 /\ up[Own(i)] = 0 /\ port[Own(i)] = script[i].port
      /\ script'[i].op = script[i].op /\ script'[i].color = script[i].color
      /\ Own(i)' = Own(i) /\ Live(i)' = Live(i)
      /\ UNCHANGED <<up, live, file, loaded, row>>
  BY <1>t DEF Check, Goto, Script, Own, Live, PortInv, Reservation, Reserved,
              UrlFits, Equipped
<1>2. \/ /\ script[i].port \in Listening
         /\ script'[i].pc = "again" /\ script'[i].port = 0
         /\ \A c \in Color : port'[<<i, c>>] = IF c = script[i].color THEN 0 ELSE port[<<i, c>>]
      \/ port' = port /\ script'[i].pc = "start" /\ script'[i].port = script[i].port
  BY <1>t DEF Check, Goto, Script
<1>3. ASSUME script[i].color = live[i], script[i].port \in Listening PROVE FALSE
  <2>1. PICK n \in Name : up[n] = script[i].port
    BY <1>3 DEF Listening
  <2>2. PICK k \in Preview, c \in Color : n = <<k, c>>
    BY DEF Name
  <2>3. CASE k = i
    BY <1>1, <1>3, <1>t, <2>1, <2>2, <2>3 DEF UrlFits, ColorsApart
  <2>4. CASE k # i
    <3>1. script[i].port \in Ports(k) /\ script[i].port \in Ports(i)
      BY <1>1, <2>1, <2>2 DEF Ports
    <3> QED BY <2>4, <3>1 DEF PortInv, PortsDisjoint
  <2> QED BY <2>3, <2>4
<1>4. port'[Live(i)] = port[Live(i)]
  BY <1>2, <1>3, <1>t
<1>5. Placed(i)' /\ Equipped(i)'
  BY <1>1, <1>2 DEF UrlFits, Placed, Equipped, Deploying, Stopping
<1>6. ColorsApart(i)'
  BY <1>1, <1>4 DEF UrlFits, ColorsApart
<1>7. Leads(i)'
  <2>1. script[i].color # live[i] => row[i] = "active"
    BY <1>1 DEF UrlFits, Placed, ActiveServed, Deploying, Stopping
  <2>2. Leading(i)' = Leading(i)
    BY <1>1, <1>2, <1>3, <1>4, <2>1 DEF Leading, Deploying
  <2> QED BY <1>1, <1>2, <2>2 DEF UrlFits, Leads, Deploying
<1>8. ActiveServed(i)'
  BY <1>1, <1>2 DEF UrlFits, ActiveServed, Deploying, Stopping
<1> QED BY <1>5, <1>6, <1>7, <1>8 DEF UrlFits


\* A runtime started on its reserved port, free when the start comes, runs on
\* another port than the live one.
LEMMA StartedApart ==
  ASSUME TypeOK, PortInv, NEW i \in Preview, UrlFits(i), script[i].pc = "start",
         live'[i] = live[i], port' = port,
         up' = up \/ up' = [up EXCEPT ![Own(i)] = script[i].port]
  PROVE  /\ ColorsApart(i)'
         /\ script[i].color # live[i] => up'[Live(i)] = up[Live(i)]
<1>t. /\ up \in [Name -> Port \cup {0}]
      /\ Own(i) = <<i, script[i].color>> /\ Live(i) = <<i, live[i]>>
      /\ script[i].color \in Color /\ live[i] \in Color
      /\ \A c \in Color : <<i, c>> \in Name
  BY OneTypes
<1>1. /\ script[i].op \in Deploying /\ script[i].port # 0
      /\ port[Own(i)] = script[i].port /\ script[i].port \notin Listening
  BY DEF PortInv, Reservation, Reserved, StartFindsPortFree, UrlFits, Equipped
<1>2. Live(i)' = Live(i)
  BY DEF Live
<1>3. \A c \in Color : up'[<<i, c>>] = up[<<i, c>>]
                         \/ (c = script[i].color /\ up'[<<i, c>>] = script[i].port)
  BY <1>t
<1>4. script[i].color # live[i] => up[Live(i)] # 0 /\ up[Live(i)] = port[Live(i)]
  <2>1. script[i].color # live[i] => script[i].op = "staging"
    BY <1>1 DEF UrlFits, Placed, Deploying, Stopping
  <2> QED BY <1>1, <2>1 DEF UrlFits, ActiveServed, ColorsApart, Stopping
<1>5. script[i].color # live[i] => script[i].port # port[Live(i)]
  BY <1>1, <1>4, <1>t DEF Listening
<1>6. ColorsApart(i)'
  BY <1>1, <1>2, <1>3, <1>5, <1>t DEF UrlFits, ColorsApart
<1> QED BY <1>3, <1>6, <1>t

\* The runtime starts.
LEMMA StartFits ==
  ASSUME TypeOK, PortInv, NEW i \in Preview, UrlFits(i), Start(i)
  PROVE  UrlFits(i)'
<1>t. /\ script \in [Preview -> Script] /\ up \in [Name -> Port \cup {0}]
      /\ Own(i) = <<i, script[i].color>> /\ Live(i) = <<i, live[i]>>
      /\ script[i].color \in Color /\ live[i] \in Color /\ script[i] \in Script
      /\ \A c \in Color : <<i, c>> \in Name
  BY OneTypes
<1>1. /\ script[i].pc = "start" /\ script[i].op \in Deploying /\ script[i].port # 0
      /\ script'[i].pc = IF script[i].op = "classic" THEN "location" ELSE "meta"
      /\ script'[i].op = script[i].op /\ script'[i].port = script[i].port
      /\ script'[i].color = script[i].color
      /\ Own(i)' = Own(i) /\ Live(i)' = Live(i)
      /\ UNCHANGED <<port, live, file, loaded, row>>
  BY <1>t DEF Start, Goto, Script, Own, Live, PortInv, Reservation, Reserved,
              UrlFits, Equipped
<1>2. ColorsApart(i)' /\ (script[i].color # live[i] => up'[Live(i)] = up[Live(i)])
  BY <1>1, StartedApart DEF Start
<1>3. up'[Own(i)] = script[i].port
  BY <1>t DEF Start
<1>4. Placed(i)' /\ Equipped(i)'
  BY <1>1, <1>3 DEF UrlFits, Placed, Equipped, Deploying, Stopping
<1>5. Leads(i)'
  <2>1. Leading(i)' = Leading(i)
    BY <1>1 DEF Leading
  <2>2. script[i].op = "staging" => loaded[i] = file[i]
    BY <1>1 DEF UrlFits, ActiveServed, Stopping
  <2> QED BY <1>1, <2>1, <2>2 DEF UrlFits, Leads, Deploying
<1>6. ActiveServed(i)'
  <2>1. script[i].op = "staging" => script[i].color # live[i]
    BY DEF UrlFits, Placed, Stopping
  <2> QED BY <1>1, <1>2, <2>1 DEF UrlFits, ActiveServed, Deploying, Stopping
<1> QED BY <1>2, <1>4, <1>5, <1>6 DEF UrlFits

\* The location file leads to the port of the run; the reload makes nginx
\* follow the file.
LEMMA LocationFits ==
  ASSUME TypeOK, PortInv, NEW i \in Preview, UrlFits(i), WriteLocation(i)
  PROVE  UrlFits(i)'
<1>t. /\ script \in [Preview -> Script] /\ script[i] \in Script
      /\ file \in [Preview -> Port \cup {0, Api}]
      /\ Own(i) = <<i, script[i].color>> /\ Live(i) = <<i, live[i]>>
  BY OneTypes
<1>1. /\ script[i].pc = "location" /\ script[i].op \in {"classic", "promote"}
      /\ script[i].port # 0 /\ port[Own(i)] = script[i].port
      /\ up[Own(i)] = script[i].port
      /\ script'[i].pc = "reload" /\ script'[i].op = script[i].op
      /\ script'[i].port = script[i].port /\ script'[i].color = script[i].color
      /\ Own(i)' = Own(i) /\ Live(i)' = Live(i) /\ file'[i] = script[i].port
      /\ UNCHANGED <<port, up, live, loaded, row>>
  BY <1>t DEF WriteLocation, Goto, Script, Own, Live, PortInv, Reservation, Reserved,
              UrlFits, Placed, Equipped, Deploying, Stopping
<1>2. Placed(i)' /\ Equipped(i)'
  BY <1>1 DEF UrlFits, Placed, Equipped, Deploying, Stopping
<1>3. ColorsApart(i)'
  BY <1>1 DEF UrlFits, ColorsApart
<1>4. Leads(i)'
  <2>1. Leading(i)' = Leading(i)
    BY <1>1 DEF Leading
  <2>2. script[i].port \in Leading(i)
    BY <1>1, <1>t DEF UrlFits, Placed, Leading, Stopping
  <2> QED BY <1>1, <2>1, <2>2 DEF UrlFits, Leads
<1>5. ActiveServed(i)'
  BY <1>1 DEF UrlFits, ActiveServed, Stopping
<1> QED BY <1>2, <1>3, <1>4, <1>5 DEF UrlFits

LEMMA ReloadFits ==
  ASSUME TypeOK, PortInv, NEW i \in Preview, UrlFits(i), Reload(i)
  PROVE  UrlFits(i)'
<1>t. /\ script \in [Preview -> Script] /\ script[i] \in Script
      /\ Own(i) = <<i, script[i].color>> /\ Live(i) = <<i, live[i]>>
  BY OneTypes
<1>1. /\ script[i].pc = "reload" /\ script[i].op \in {"classic", "promote"} \cup Stopping
      /\ script'[i].pc = IF script[i].op \in Stopping THEN "settle" ELSE "record"
      /\ script'[i].op = script[i].op
      /\ script'[i].port = script[i].port /\ script'[i].color = script[i].color
      /\ Own(i)' = Own(i) /\ Live(i)' = Live(i) /\ loaded'[i] = file[i]
      /\ UNCHANGED <<port, up, live, file, row>>
  BY <1>t DEF Reload, Goto, Script, Own, Live, UrlFits, Placed, Stopping
<1>2. Placed(i)' /\ Equipped(i)'
  BY <1>1 DEF UrlFits, Placed, Equipped, Deploying, Stopping
<1>3. ColorsApart(i)'
  BY <1>1 DEF UrlFits, ColorsApart
<1>4. Leads(i)'
  <2>1. Leading(i)' = Leading(i)
    BY <1>1 DEF Leading
  <2> QED BY <1>1, <2>1 DEF UrlFits, Leads, Stopping
<1>5. ActiveServed(i)'
  BY <1>1 DEF UrlFits, ActiveServed, Stopping
<1> QED BY <1>2, <1>3, <1>4, <1>5 DEF UrlFits

\* The run becomes the live color, on the port it was given; the old one stops.
LEMMA RecordFits ==
  ASSUME TypeOK, PortInv, NEW i \in Preview, UrlFits(i), Record(i)
  PROVE  UrlFits(i)'
<1>t. /\ script \in [Preview -> Script] /\ script[i] \in Script
      /\ port \in [Name -> Port \cup {0}] /\ up \in [Name -> Port \cup {0}]
      /\ live \in [Preview -> Color]
      /\ Own(i) = <<i, script[i].color>> /\ Live(i) = <<i, live[i]>>
      /\ Base(i) = <<i, "primary">> /\ "primary" \in Color
      /\ script[i].color \in Color /\ live[i] \in Color
      /\ \A c \in Color : <<i, c>> \in Name
  BY OneTypes DEF Base, Color
<1>1. /\ script[i].pc = "record" /\ script[i].op \in {"classic", "promote"}
      /\ script[i].port # 0 /\ port[Own(i)] = script[i].port
      /\ up[Own(i)] = script[i].port
      /\ file[i] = script[i].port /\ loaded[i] = script[i].port
      /\ script'[i].pc = IF script[i].op = "classic" THEN "meta" ELSE "settle"
      /\ script'[i].op = script[i].op
      /\ script'[i].port = script[i].port /\ script'[i].color = script[i].color
      /\ Own(i)' = Own(i) /\ live'[i] = script[i].color /\ Live(i)' = Own(i)
      /\ UNCHANGED <<file, loaded, row>>
  BY <1>t DEF Record, Goto, Script, Own, Live, PortInv, Reservation, Reserved,
              UrlFits, Placed, Equipped, Leads, Deploying, Stopping
<1>2. \A c \in Color :
        /\ port'[<<i, c>>] = IF c = "primary" THEN script[i].port ELSE port[<<i, c>>]
        /\ up'[<<i, c>>] = IF c = live[i] /\ c # script[i].color THEN 0 ELSE up[<<i, c>>]
  BY <1>t DEF Record
<1>3. port'[Own(i)] = script[i].port /\ up'[Own(i)] = script[i].port
  BY <1>1, <1>2, <1>t
<1>4. Placed(i)' /\ Equipped(i)'
  BY <1>1, <1>3 DEF UrlFits, Placed, Equipped, Deploying, Stopping
<1>5. ColorsApart(i)'
  <2>1. CASE script[i].op = "classic"
    <3>1. script[i].color = live[i]
      BY <2>1 DEF UrlFits, Placed, Stopping
    <3> QED BY <1>1, <1>2, <1>3, <3>1, <1>t DEF UrlFits, ColorsApart
  <2>2. CASE script[i].op = "promote"
    <3>1. script[i].color # live[i]
      BY <1>1, <2>2 DEF UrlFits, Placed, Stopping
    <3>2. \A c \in Color : c # script[i].color => up'[<<i, c>>] = 0
      BY <1>2, <3>1, <1>t DEF Color
    <3> QED BY <1>1, <1>3, <3>2, <1>t DEF ColorsApart
  <2> QED BY <1>1, <2>1, <2>2
<1>6. Leads(i)'
  BY <1>1, <1>3 DEF Leads, Leading, Stopping
<1>7. ActiveServed(i)'
  BY <1>1, <1>3 DEF UrlFits, ActiveServed, Stopping
<1> QED BY <1>4, <1>5, <1>6, <1>7 DEF UrlFits

\* A deploy that fails leaves everything as it is, and perhaps the runtime it
\* was starting.
LEMMA FailsFit ==
  ASSUME TypeOK, PortInv, NEW i \in Preview, UrlFits(i), "reload" \notin Failures,
         Fails(i)
  PROVE  UrlFits(i)'
<1>t. /\ script \in [Preview -> Script]
      /\ Own(i) = <<i, script[i].color>> /\ Live(i) = <<i, live[i]>>
      /\ script[i].color \in Color /\ live[i] \in Color
  BY OneTypes
<1>1. /\ script[i].pc \in {"reserve", "again", "start"} /\ script[i].op \in Deploying
      /\ script'[i] = NoScript /\ Live(i)' = Live(i)
      /\ up' = up \/ (script[i].pc = "start"
                        /\ up' = [up EXCEPT ![Own(i)] = script[i].port])
      /\ UNCHANGED <<port, live, file, loaded, row>>
  BY <1>t DEF Fails, End, Live
<1>2. ColorsApart(i)' /\ (script[i].color # live[i] => up'[Live(i)] = up[Live(i)])
  <2>1. CASE up' = up
    BY <1>1, <2>1 DEF UrlFits, ColorsApart
  <2>2. CASE script[i].pc = "start"
    BY <1>1, <2>2, StartedApart
  <2> QED BY <1>1, <2>1, <2>2
<1>3. Placed(i)' /\ Equipped(i)'
  BY <1>1 DEF Placed, Equipped, NoScript, Deploying, Stopping
<1>4. Leads(i)'
  <2>1. script[i].op # "promote" /\ script'[i].op # "promote"
    BY <1>1 DEF Deploying, NoScript
  <2>2. port' = port /\ row' = row /\ Live(i)' = Live(i)
    BY <1>1
  <2>3. Leading(i)' = Leading(i)
    BY <2>1, <2>2 DEF Leading
  <2> QED BY <1>1, <2>3 DEF UrlFits, Leads, Deploying, NoScript
<1>5. ActiveServed(i)'
  <2>1. script[i].op = "staging" => script[i].color # live[i]
    BY DEF UrlFits, Placed, Stopping
  <2> QED BY <1>1, <1>2, <2>1 DEF UrlFits, ActiveServed, Deploying, Stopping, NoScript
<1> QED BY <1>2, <1>3, <1>4, <1>5 DEF UrlFits


\* A kill leaves the preview where its script was: after a classic run's
\* location file, nginx may be left behind that file, serving nothing.
LEMMA KillFits ==
  ASSUME TypeOK, PortInv, NEW i \in Preview, UrlFits(i), Kill(i)
  PROVE  UrlFits(i)'
<1>t. script \in [Preview -> Script] /\ script[i] \in Script
  BY OneTypes
<1>1. /\ script[i].op \in Deploying /\ script[i].pc # "meta"
      /\ \/ /\ script[i].op = "staging" /\ script'[i].op = "abort"
            /\ script'[i].pc = "stop" /\ script'[i].color = script[i].color
         \/ /\ script[i].op = "classic" /\ script'[i].op = "pause"
            /\ script'[i].pc = "stop" /\ script'[i].color = script[i].color
         \/ /\ script[i].op = "classic" /\ script'[i].op = "none"
            /\ script'[i].pc = "idle"
      /\ Live(i)' = Live(i)
      /\ UNCHANGED <<port, up, live, file, loaded, row>>
  BY <1>t DEF Kill, Run, End, NoScript, Live, Script
<1>2. Placed(i)' /\ Equipped(i)'
  BY <1>1 DEF UrlFits, Placed, Equipped, Deploying, Stopping
<1>3. ColorsApart(i)'
  BY <1>1 DEF UrlFits, ColorsApart
<1>4. Leads(i)'
  <2>1. /\ Leading(i)' = Leading(i)
        /\ "promote" \notin Failures => Leading(i) = {0, Api, port[Live(i)]}
    BY <1>1 DEF Leading, Deploying
  <2>2. ASSUME script[i].pc = "reload" PROVE file[i] = port[Live(i)]
    <3>1. /\ script[i].op = "classic" /\ script[i].color = live[i]
          /\ file[i] = script[i].port /\ script[i].port # 0
      BY <1>1, <2>2 DEF UrlFits, Placed, Equipped, Leads, Deploying, Stopping
    <3> QED BY <3>1 DEF PortInv, Reservation, Reserved, Own, Live
  <2> QED BY <1>1, <2>1, <2>2 DEF UrlFits, Leads, Deploying, Stopping
<1>5. ActiveServed(i)'
  <2>1. script[i].op = "staging" => script[i].pc \notin {"reload", "record"}
    BY DEF UrlFits, Placed, Stopping
  <2> QED BY <1>1, <2>1 DEF UrlFits, ActiveServed, Deploying, Stopping
<1> QED BY <1>2, <1>3, <1>4, <1>5 DEF UrlFits

\* What the API does with a deploy.sh that has written its result.
LEMMA ResultFits ==
  ASSUME TypeOK, PortInv, NEW i \in Preview, UrlFits(i), Healthy(i) \/ Unhealthy(i)
  PROVE  UrlFits(i)'
<1>t. /\ script \in [Preview -> Script] /\ script[i] \in Script
      /\ row \in [Preview -> {"none", "down", "active"}]
      /\ Own(i) = <<i, script[i].color>> /\ Live(i) = <<i, live[i]>>
  BY OneTypes
<1>1. /\ script[i].pc = "meta" /\ script[i].op \in Deploying /\ script[i].port # 0
      /\ up[Own(i)] = script[i].port /\ loaded[i] = file[i]
      /\ script[i].op = "classic" => /\ script[i].color = live[i] /\ Own(i) = Live(i)
                                     /\ file[i] = script[i].port
      /\ script[i].op = "staging" => script[i].color # live[i]
  BY <1>t DEF Healthy, ProbeOk, Unhealthy, UrlFits, Placed, Equipped, Leads, Deploying, Stopping
<1>2. /\ \/ /\ script[i].op = "classic" /\ script'[i].op = "none"
            /\ script'[i].pc = "idle" /\ row'[i] = "active"
         \/ /\ script[i].op = "staging" /\ script'[i].op = "promote"
            /\ script'[i].pc = "location" /\ script'[i].color = script[i].color
            /\ script'[i].port = script[i].port /\ row'[i] = row[i] /\ Own(i)' = Own(i)
         \/ /\ script[i].op = "classic" /\ script'[i].op = "pause"
            /\ script'[i].pc = "stop" /\ row'[i] = row[i]
         \/ /\ script[i].op = "staging" /\ script'[i].op = "abort"
            /\ script'[i].color = script[i].color
            /\ script'[i].pc = "stop" /\ row'[i] = row[i]
      /\ Live(i)' = Live(i)
      /\ UNCHANGED <<port, up, live, file, loaded>>
  BY <1>1, <1>t DEF Healthy, ProbeOk, Unhealthy, Run, End, NoScript, Live, Own, Script, Deploying
<1>3. Placed(i)' /\ Equipped(i)'
  BY <1>1, <1>2 DEF UrlFits, Placed, Equipped, Deploying, Stopping
<1>4. ColorsApart(i)'
  BY <1>2 DEF UrlFits, ColorsApart
<1>5. Leads(i)'
  <2>1. row'[i] = row[i] => Leading(i) \subseteq Leading(i)'
    BY <1>2 DEF Leading
  <2>2. script[i].op = "classic" => script[i].port \in Leading(i)'
    BY <1>1, <1>2 DEF Leading, PortInv, Reservation, Reserved
  <2> QED BY <1>1, <1>2, <2>1, <2>2 DEF UrlFits, Leads, Deploying, Stopping
<1>6. ActiveServed(i)'
  BY <1>1, <1>2 DEF UrlFits, ActiveServed, Deploying, Stopping
<1> QED BY <1>3, <1>4, <1>5, <1>6 DEF UrlFits

\* abort-zd.sh stops the color that is not live.
LEMMA AbortFits ==
  ASSUME TypeOK, PortInv, NEW i \in Preview, UrlFits(i), Abort(i)
  PROVE  UrlFits(i)'
<1>t. /\ script \in [Preview -> Script] /\ up \in [Name -> Port \cup {0}]
      /\ Own(i) = <<i, script[i].color>> /\ Live(i) = <<i, live[i]>>
      /\ script[i].color \in Color /\ live[i] \in Color
      /\ \A c \in Color : <<i, c>> \in Name
  BY OneTypes
<1>1. /\ script[i].pc = "stop" /\ script[i].op = "abort" /\ script[i].color # live[i]
      /\ script'[i] = NoScript /\ Live(i)' = Live(i)
      /\ UNCHANGED <<port, live, file, loaded, row>>
  BY <1>t DEF Abort, End, Live, UrlFits, Placed, Stopping
<1>2. \A c \in Color : up'[<<i, c>>] = IF c = script[i].color THEN 0 ELSE up[<<i, c>>]
  BY <1>1, <1>t DEF Abort
<1>3. Placed(i)' /\ Equipped(i)'
  BY <1>1 DEF Placed, Equipped, NoScript, Deploying, Stopping
<1>4. ColorsApart(i)'
  BY <1>1, <1>2, <1>t DEF UrlFits, ColorsApart
<1>5. Leads(i)'
  <2>1. Leading(i)' = Leading(i)
    BY <1>1 DEF Leading, NoScript
  <2> QED BY <1>1, <2>1 DEF UrlFits, Leads, NoScript
<1>6. ActiveServed(i)'
  BY <1>1, <1>2, <1>t DEF UrlFits, ActiveServed, Stopping, NoScript
<1> QED BY <1>3, <1>4, <1>5, <1>6 DEF UrlFits

\* pause.sh, sleep.sh and destroy.sh: their beginning, ...
LEMMA BeginStopFits ==
  ASSUME TypeOK, PortInv, NEW i \in Preview, UrlFits(i), NEW op \in Op, BeginStop(i, op)
  PROVE  UrlFits(i)'
<1>1. /\ script[i].pc = "idle" /\ script[i].op = "none" /\ op \in Stopping
      /\ script'[i].pc = "stop" /\ script'[i].op = op /\ Live(i)' = Live(i)
      /\ UNCHANGED <<port, up, live, file, loaded, row>>
  BY OneTypes DEF BeginStop, Run, Script, Live, UrlFits, Placed, Deploying, Stopping
<1>2. Placed(i)' /\ Equipped(i)'
  BY <1>1 DEF Placed, Equipped, Deploying, Stopping
<1>3. ColorsApart(i)'
  BY <1>1 DEF UrlFits, ColorsApart
<1>4. Leads(i)'
  <2>1. Leading(i)' = Leading(i)
    BY <1>1 DEF Leading, Stopping
  <2> QED BY <1>1, <2>1 DEF UrlFits, Leads, Stopping
<1>5. ActiveServed(i)'
  BY <1>1 DEF UrlFits, ActiveServed, Stopping
<1> QED BY <1>2, <1>3, <1>4, <1>5 DEF UrlFits

\* ... the runtimes they stop, ...
LEMMA StopBothFits ==
  ASSUME TypeOK, PortInv, NEW i \in Preview, UrlFits(i), StopBoth(i)
  PROVE  UrlFits(i)'
<1>t. /\ script \in [Preview -> Script] /\ script[i] \in Script
      /\ Live(i) = <<i, live[i]>> /\ live[i] \in Color
      /\ \A c \in Color : <<i, c>> \in Name
  BY OneTypes
<1>1. /\ script[i].pc = "stop" /\ script[i].op \in Stopping
      /\ script'[i].pc = "files" /\ script'[i].op = script[i].op /\ Live(i)' = Live(i)
      /\ \A c \in Color : up'[<<i, c>>] = 0
      /\ UNCHANGED <<port, live, file, loaded, row>>
  BY <1>t DEF StopBoth, Goto, Script, Live
<1>2. Placed(i)' /\ Equipped(i)'
  BY <1>1 DEF Placed, Equipped, Deploying, Stopping
<1>3. ColorsApart(i)'
  BY <1>1, <1>t DEF ColorsApart
<1>4. Leads(i)'
  <2>1. Leading(i)' = Leading(i)
    BY <1>1 DEF Leading, Stopping
  <2> QED BY <1>1, <2>1 DEF UrlFits, Leads, Stopping
<1>5. ActiveServed(i)'
  BY <1>1 DEF ActiveServed, Stopping
<1> QED BY <1>2, <1>3, <1>4, <1>5 DEF UrlFits

\* ... the files they remove ...
LEMMA RemoveFilesFits ==
  ASSUME TypeOK, PortInv, NEW i \in Preview, UrlFits(i), RemoveFiles(i)
  PROVE  UrlFits(i)'
<1>t. /\ script \in [Preview -> Script] /\ script[i] \in Script
      /\ file \in [Preview -> Port \cup {0, Api}] /\ live \in [Preview -> Color]
      /\ Live(i) = <<i, live[i]>> /\ live[i] \in Color
      /\ \A c \in Color : <<i, c>> \in Name
  BY OneTypes
<1>1. /\ script[i].pc = "files" /\ script[i].op \in Stopping
      /\ \A c \in Color : up[<<i, c>>] = 0
      /\ script'[i].pc = "reload" /\ script'[i].op = script[i].op
      /\ file'[i] \in {0, Api}
      /\ UNCHANGED <<up, loaded, row>>
  BY <1>t DEF RemoveFiles, Goto, Script, UrlFits, Placed, Equipped, Deploying, Stopping
<1>2. script[i].op # "destroy" => UNCHANGED <<port, live>>
  BY DEF RemoveFiles
<1>3. live'[i] \in Color
  BY <1>t DEF RemoveFiles, Color
<1>4. Placed(i)' /\ Equipped(i)'
  BY <1>1 DEF Placed, Equipped, Deploying, Stopping
<1>5. ColorsApart(i)'
  BY <1>1, <1>3 DEF ColorsApart, Live
<1>6. Leads(i)'
  <2>1. file'[i] \in Leading(i)'
    BY <1>1 DEF Leading
  <2>2. script[i].op # "destroy" => Leading(i)' = Leading(i)
    BY <1>1, <1>2 DEF Leading, Live, Stopping
  <2> QED BY <1>1, <2>1, <2>2 DEF UrlFits, Leads, Stopping
<1>7. ActiveServed(i)'
  BY <1>1 DEF ActiveServed, Stopping
<1> QED BY <1>4, <1>5, <1>6, <1>7 DEF UrlFits

\* ... and the row that is saved at the end of a stop or of a flip.
LEMMA SettleFits ==
  ASSUME TypeOK, PortInv, NEW i \in Preview, UrlFits(i), Settle(i)
  PROVE  UrlFits(i)'
<1>t. /\ script \in [Preview -> Script] /\ row \in [Preview -> {"none", "down", "active"}]
      /\ Own(i) = <<i, script[i].color>> /\ Live(i) = <<i, live[i]>>
  BY OneTypes
<1>1. /\ script[i].pc = "settle" /\ script[i].op \in Stopping \cup {"promote"}
      /\ script'[i] = NoScript /\ Live(i)' = Live(i)
      /\ script[i].op = "promote" => row[i] = "active"
      /\ row'[i] = IF script[i].op = "promote" THEN "active"
                   ELSE IF script[i].op = "destroy" THEN "none" ELSE "down"
      /\ UNCHANGED <<port, up, live, file, loaded>>
  BY <1>t DEF Settle, End, Live, UrlFits, Placed, ActiveServed, Stopping
<1>2. Placed(i)' /\ Equipped(i)'
  BY <1>1 DEF Placed, Equipped, NoScript, Deploying, Stopping
<1>3. ColorsApart(i)'
  BY <1>1 DEF UrlFits, ColorsApart
<1>4. Leads(i)'
  <2>1. {0, Api, port[Live(i)]} \subseteq Leading(i)'
    BY <1>1 DEF Leading, NoScript
  <2>2. script[i].op = "promote" => script[i].port = port[Live(i)]
    BY <1>1, <1>t DEF UrlFits, Placed, Equipped, Stopping, PortInv, Reservation, Reserved
  <2>3. Leading(i) \subseteq Leading(i)'
    BY <1>1, <2>1, <2>2 DEF Leading, Stopping
  <2> QED BY <1>1, <2>3 DEF UrlFits, Leads, NoScript
<1>5. ActiveServed(i)'
  BY <1>1 DEF UrlFits, ActiveServed, Stopping, NoScript
<1> QED BY <1>2, <1>3, <1>4, <1>5 DEF UrlFits

\* A promotion nginx refuses: the file leads to the color that is aborted, and
\* the row is down until the next deploy writes it again.
LEMMA PromoteFailsFits ==
  ASSUME TypeOK, PortInv, NEW i \in Preview, UrlFits(i), PromoteFails(i)
  PROVE  UrlFits(i)'
<1>t. /\ script \in [Preview -> Script] /\ script[i] \in Script
      /\ row \in [Preview -> {"none", "down", "active"}]
      /\ Own(i) = <<i, script[i].color>> /\ script[i].color \in Color
  BY OneTypes
<1>1. /\ "promote" \in Failures /\ script[i].pc = "reload" /\ script[i].op = "promote"
      /\ script[i].color # live[i] /\ script[i].port # 0
      /\ port[Own(i)] = script[i].port /\ file[i] = script[i].port
      /\ script'[i].op = "abort" /\ script'[i].pc = "stop"
      /\ script'[i].color = script[i].color /\ row'[i] = "down" /\ Live(i)' = Live(i)
      /\ UNCHANGED <<port, up, live, file, loaded>>
  BY <1>t DEF PromoteFails, Run, Script, Live, UrlFits, Placed, Equipped, Leads,
              PortInv, Reservation, Reserved, Deploying, Stopping
<1>2. Placed(i)' /\ Equipped(i)'
  BY <1>1 DEF Placed, Equipped, Deploying, Stopping
<1>3. ColorsApart(i)'
  BY <1>1 DEF UrlFits, ColorsApart
<1>4. Leads(i)'
  <2>1. Leading(i) \subseteq Leading(i)'
    BY <1>1, <1>t DEF Leading
  <2> QED BY <1>1, <2>1 DEF UrlFits, Leads, Stopping
<1>5. ActiveServed(i)'
  BY <1>1 DEF ActiveServed
<1> QED BY <1>2, <1>3, <1>4, <1>5 DEF UrlFits

\* While nginx takes the reloads of deploy.sh and of the stops, UrlInv holds of
\* every state.
LEMMA UrlInvariant ==
  ASSUME "reload" \notin Failures
  PROVE  Spec => []UrlInv
<1>1. Init => UrlInv
  <2> SUFFICES ASSUME Init, NEW i \in Preview PROVE UrlFits(i)
    BY DEF UrlInv
  <2>1. /\ script[i] = NoScript /\ live[i] = "primary" /\ row[i] = "none"
        /\ file[i] = 0 /\ loaded[i] = 0
        /\ \A c \in Color : port[<<i, c>>] = 0 /\ up[<<i, c>>] = 0
    BY NameTypes DEF Init
  <2>2. up[Live(i)] = 0
    BY <2>1 DEF Live, Color
  <2>3. Placed(i) /\ Equipped(i)
    BY <2>1 DEF Placed, Equipped, NoScript, Deploying, Stopping
  <2>4. ColorsApart(i)
    BY <2>1, <2>2 DEF ColorsApart
  <2>5. Leads(i) /\ ActiveServed(i)
    BY <2>1 DEF Leads, Leading, ActiveServed, NoScript
  <2> QED BY <2>3, <2>4, <2>5 DEF UrlFits
<1>2. TypeOK /\ PortInv /\ UrlInv /\ [Next]_vars => UrlInv'
  <2> SUFFICES ASSUME TypeOK, PortInv, UrlInv, [Next]_vars, NEW j \in Preview
               PROVE  UrlFits(j)'
    BY DEF UrlInv
  <2>0. UrlFits(j)
    BY DEF UrlInv
  <2>1. CASE UNCHANGED vars
    BY <2>0, <2>1, OthersFit DEF vars
  <2>2. ASSUME NEW i \in Preview,
               \/ \E op \in Op : Begin(i, op) \/ BeginStop(i, op)
               \/ Reserve(i) \/ StopOwn(i) \/ Check(i) \/ Start(i) \/ WriteLocation(i)
               \/ Reload(i) \/ Record(i) \/ Fails(i) \/ Kill(i)
               \/ Healthy(i) \/ Unhealthy(i) \/ PromoteFails(i) \/ Abort(i)
               \/ StopBoth(i) \/ RemoveFiles(i) \/ StopFails(i) \/ Settle(i)
        PROVE  UrlFits(j)'
    <3>1. CASE i = j
      <4>1. ~StopFails(j)
        BY DEF StopFails
      <4> QED BY <2>0, <2>2, <3>1, <4>1, BeginFits, BeginStopFits, ReserveFits,
                 StopOwnFits, CheckFits, StartFits, LocationFits, ReloadFits, RecordFits,
                 FailsFit, KillFits, ResultFits, AbortFits, StopBothFits,
                 RemoveFilesFits, SettleFits, PromoteFailsFits
    <3>2. CASE i # j
      BY <2>0, <2>2, <3>2, OthersStay, OthersFit
    <3> QED BY <3>1, <3>2
  <2> QED BY <2>1, <2>2 DEF Next
<1>3. Spec => [](TypeOK /\ PortInv)
  BY ScriptsTypeCorrect, PortInvariant, PTL
<1> QED BY <1>1, <1>2, <1>3, PTL DEF Spec


\* The ports nginx may lead a preview to are its own, the API's or none.
LEMMA LeadingIsOwn ==
  ASSUME TypeOK, NEW i \in Preview
  PROVE  Leading(i) \subseteq {0, Api} \cup Ports(i)
<1>1. /\ script[i].port \in Ports(i) \cup {0}
      /\ \A c \in Color : port[<<i, c>>] \in Ports(i) \cup {0}
  BY InPorts
<1>2. Live(i) = <<i, live[i]>> /\ live[i] \in Color
  BY OneTypes
<1>3. port[Live(i)] \in Ports(i) \cup {0}
  BY <1>1, <1>2
<1> QED BY <1>1, <1>3 DEF Leading

\* nginx never leads the URL of a preview to the runtime of another one, be it
\* flipped, aborted, killed or destroyed, as long as nginx takes the reloads of
\* deploy.sh and of the stops.  (A destroy whose reload it refuses leaves the URL
\* of the preview loaded and its port to the next one that asks.)
THEOREM UrlsStayApart ==
  ASSUME "reload" \notin Failures
  PROVE  Spec => []UrlStaysOwn
<1>1. TypeOK /\ PortInv /\ UrlInv => UrlStaysOwn
  <2> SUFFICES ASSUME TypeOK, PortInv, UrlInv, NEW i \in Preview, NEW j \in Preview,
                      i # j, script[i].op # "destroy", loaded[i] \in Ports(j)
               PROVE  FALSE
    BY DEF UrlStaysOwn
  <2>1. loaded[i] \in {0, Api} \cup Ports(i)
    BY LeadingIsOwn DEF UrlInv, UrlFits, Leads
  <2>2. ASSUME NEW p \in Ports(j) PROVE p \in Port
    <3>1. p # 0 /\ (p = script[j].port \/ \E c \in Color : p = port[<<j, c>>] \/ p = up[<<j, c>>])
      BY DEF Ports
    <3>2. /\ script[j].port \in Port \cup {0} /\ port \in [Name -> Port \cup {0}]
          /\ up \in [Name -> Port \cup {0}] /\ \A c \in Color : <<j, c>> \in Name
      BY OneTypes
    <3> QED BY <3>1, <3>2
  <2> QED BY <2>1, <2>2, ApiAssumption, PortAssumption
             DEF PortInv, PortsDisjoint, Ports
<1>2. Spec => []UrlInv
  BY UrlInvariant
<1> QED BY <1>1, <1>2, ScriptsTypeCorrect, PortInvariant, PTL

\* Between scripts, an active preview is served by the runtime of its live color
\* on the port that runtime has reserved, under the same hypothesis: a stop whose
\* reload nginx refuses leaves the row active and nothing running.
THEOREM ActiveStaysLive ==
  ASSUME "reload" \notin Failures
  PROVE  Spec => []ActiveIsLive
<1>1. UrlInv => ActiveIsLive
  <2> SUFFICES ASSUME UrlInv, NEW i \in Preview, row[i] = "active",
                      script[i].pc = "idle"
               PROVE  /\ up[Live(i)] # 0 /\ loaded[i] = up[Live(i)]
                      /\ file[i] = up[Live(i)] /\ port[Live(i)] = up[Live(i)]
    BY DEF ActiveIsLive
  <2>1. UrlFits(i) /\ script[i].op \notin Stopping
    BY DEF UrlInv, UrlFits, Placed, Stopping
  <2> QED BY <2>1 DEF UrlFits, ActiveServed, ColorsApart
<1>2. Spec => []UrlInv
  BY UrlInvariant
<1> QED BY <1>1, <1>2, PTL


-----------------------------------------------------------------------------
(* What takes the URL of a preview down.                                   *)

\* What serves a preview that no classic deploy and no stop works on: one of its
\* runtimes, on the port of its location file, the live one but for a promotion.
LEMMA ServedFrom ==
  ASSUME TypeOK, NEW i \in Preview, UrlFits(i), "promote" \notin Failures, Served(i),
         script[i].op \notin {"classic"} \cup Stopping
  PROVE  /\ loaded[i] # 0 /\ loaded[i] # Api
         /\ script[i].op # "promote" => up[Live(i)] = loaded[i] /\ file[i] = loaded[i]
         /\ script[i].op = "promote" => file[i] \in {loaded[i], up[Own(i)]}
         /\ script[i].op = "promote" /\ script[i].pc \in {"reload", "record"} =>
              file[i] = script[i].port /\ up[Own(i)] = script[i].port /\ script[i].port # 0
<1>1. PICK c \in Color : loaded[i] = up[<<i, c>>] /\ up[<<i, c>>] # 0
  BY DEF Served
<1>2. /\ up \in [Name -> Port \cup {0}] /\ <<i, c>> \in Name
      /\ Own(i) = <<i, script[i].color>> /\ Live(i) = <<i, live[i]>>
  BY OneTypes
<1>3. loaded[i] # 0 /\ loaded[i] # Api
  BY <1>1, <1>2, ApiAssumption
<1>4. /\ script[i].op \in {"none", "staging", "promote", "abort"}
      /\ script[i].op # "promote" => script[i].pc # "reload"
  BY DEF UrlFits, Placed, Stopping
<1>5. script[i].op # "promote" => loaded[i] = port[Live(i)] /\ file[i] = loaded[i]
  BY <1>3, <1>4 DEF UrlFits, Leads, Leading
<1>6. script[i].op # "promote" => up[Live(i)] = loaded[i]
  BY <1>1, <1>2, <1>5 DEF UrlFits, ColorsApart
<1>7. script[i].op = "promote" /\ script[i].pc \in {"reload", "record"} =>
        file[i] = script[i].port /\ up[Own(i)] = script[i].port /\ script[i].port # 0
  BY DEF UrlFits, Leads, Equipped, Stopping
<1>8. script[i].op = "promote" => file[i] \in {loaded[i], up[Own(i)]}
  BY <1>3, <1>7 DEF UrlFits, Leads
<1> QED BY <1>3, <1>5, <1>6, <1>7, <1>8

\* A preview stays served if the runtime on the port nginx leads to stays up.
LEMMA StillServed ==
  ASSUME NEW i \in Preview, NEW c \in Color,
         loaded'[i] = up'[<<i, c>>], up'[<<i, c>>] # 0
  PROVE  Served(i)'
BY DEF Served

\* Neither another preview's script nor its own zero-downtime run, promotion or
\* abort, at whatever step it fails or is killed, takes the URL down.
LEMMA ServedStays ==
  ASSUME TypeOK, UrlInv, {"reload", "promote"} \cap Failures = {}, [Next]_vars,
         NEW i \in Preview, Served(i), script[i].op \notin {"classic"} \cup Stopping
  PROVE  Served(i)'
<1>0. UrlFits(i)
  BY DEF UrlInv
<1>t. /\ up \in [Name -> Port \cup {0}] /\ script \in [Preview -> Script]
      /\ Own(i) = <<i, script[i].color>> /\ Live(i) = <<i, live[i]>>
      /\ script[i].color \in Color /\ live[i] \in Color
      /\ \A c \in Color : <<i, c>> \in Name
  BY OneTypes
<1>f. /\ loaded[i] # 0
      /\ script[i].op # "promote" => up[Live(i)] = loaded[i] /\ file[i] = loaded[i]
      /\ script[i].op = "promote" => file[i] \in {loaded[i], up[Own(i)]}
      /\ script[i].op = "promote" /\ script[i].pc \in {"reload", "record"} =>
           file[i] = script[i].port /\ up[Own(i)] = script[i].port /\ script[i].port # 0
  BY <1>0, ServedFrom
<1>c. PICK c \in Color : loaded[i] = up[<<i, c>>]
  BY DEF Served
<1>1. CASE UNCHANGED vars
  BY <1>1, <1>c, <1>f, StillServed DEF vars
<1>2. ASSUME NEW k \in Preview \ {i},
             \/ \E op \in Op : Begin(k, op) \/ BeginStop(k, op)
             \/ Reserve(k) \/ StopOwn(k) \/ Check(k) \/ Start(k) \/ WriteLocation(k)
             \/ Reload(k) \/ Record(k) \/ Fails(k) \/ Kill(k)
             \/ Healthy(k) \/ Unhealthy(k) \/ PromoteFails(k) \/ Abort(k)
             \/ StopBoth(k) \/ RemoveFiles(k) \/ StopFails(k) \/ Settle(k)
      PROVE  Served(i)'
  <2>1. /\ loaded'[i] \in {loaded[i], file[i]}
        /\ \A d \in Color : up'[<<i, d>>] = up[<<i, d>>]
    BY <1>2, OthersStay
  <2>2. CASE loaded'[i] = loaded[i]
    BY <1>c, <1>f, <2>1, <2>2, StillServed
  <2>3. CASE loaded'[i] = file[i] /\ file[i] # loaded[i]
    <3>1. script[i].op = "promote" /\ file[i] = up[Own(i)]
      BY <1>f, <2>3
    <3>2. file[i] = script[i].port /\ file[i] # 0
      <4>1. script[i].pc \in {"reload", "record"}
        BY <1>0, <1>f, <2>3, <3>1, ServedFrom DEF UrlFits, Leads
      <4> QED BY <1>f, <3>1, <4>1
    <3> QED BY <1>t, <2>1, <2>3, <3>1, <3>2, StillServed
  <2> QED BY <2>1, <2>2, <2>3
<1>3. CASE \/ \E op \in Op : Begin(i, op) \/ BeginStop(i, op)
           \/ Reserve(i) \/ Check(i) \/ WriteLocation(i) \/ Kill(i)
           \/ Healthy(i) \/ Unhealthy(i) \/ PromoteFails(i) \/ StopFails(i) \/ Settle(i)
           \/ RemoveFiles(i)
  <2>1. up' = up /\ loaded' = loaded
    BY <1>3 DEF Begin, BeginStop, Reserve, Check, WriteLocation, Kill, Healthy, ProbeOk,
                Unhealthy, PromoteFails, StopFails, Settle, RemoveFiles
  <2> QED BY <1>c, <1>f, <2>1, StillServed
<1>4. CASE StopOwn(i) \/ Abort(i)
  <2>1. script[i].op \in {"staging", "abort"} /\ script[i].color # live[i]
    BY <1>0, <1>4 DEF StopOwn, Abort, Deploying, UrlFits, Placed, Stopping
  <2>2. loaded' = loaded /\ up'[Live(i)] = up[Live(i)]
    BY <1>4, <1>t, <2>1 DEF StopOwn, Abort
  <2> QED BY <1>f, <1>t, <2>1, <2>2, StillServed
<1>5. CASE Start(i) \/ Fails(i)
  <2>1. script[i].op = "staging" /\ script[i].color # live[i]
    BY <1>0, <1>5 DEF Start, Fails, Deploying, UrlFits, Placed, Stopping
  <2>2. loaded' = loaded /\ up'[Live(i)] = up[Live(i)]
    BY <1>5, <1>t, <2>1 DEF Start, Fails
  <2> QED BY <1>f, <1>t, <2>1, <2>2, StillServed
<1>6. CASE Reload(i)
  <2>1. script[i].op = "promote" /\ script[i].pc = "reload"
    BY <1>0, <1>6 DEF Reload, UrlFits, Placed, Stopping
  <2>2. loaded'[i] = file[i] /\ up' = up
    BY <1>6 DEF Reload
  <2> QED BY <1>f, <1>t, <2>1, <2>2, StillServed
<1>7. CASE Record(i)
  <2>1. script[i].op = "promote" /\ script[i].pc = "record" /\ script[i].color # live[i]
    BY <1>0, <1>7 DEF Record, UrlFits, Placed, Stopping
  <2>2. loaded' = loaded /\ loaded[i] = file[i]
    BY <1>0, <1>7, <2>1 DEF Record, UrlFits, Leads, Stopping
  <2>3. up'[Own(i)] = up[Own(i)]
    BY <1>7, <1>t, <2>1 DEF Record
  <2> QED BY <1>f, <1>t, <2>1, <2>2, <2>3, StillServed
<1>8. ~StopBoth(i)
  BY DEF StopBoth
<1> QED BY <1>1, <1>2, <1>3, <1>4, <1>5, <1>6, <1>7, <1>8 DEF Next

\* The URL of a preview stops being served only by a stop or by a classic deploy
\* of that preview, as long as nginx refuses no reload: one refused in a
\* promotion leaves the location file leading to the color the API then aborts,
\* and the next reload of any preview loads it.
THEOREM OnlyStopsUnserve ==
  ASSUME {"reload", "promote"} \cap Failures = {}
  PROVE  Spec => OnlyStoppedByItself
<1>1. TypeOK /\ UrlInv /\ [Next]_vars =>
        [\A i \in Preview : Served(i) /\ ~Served(i)' =>
           script[i].op \in {"classic"} \cup Stopping]_vars
  BY ServedStays
<1>2. Spec => []UrlInv
  BY UrlInvariant
<1> QED BY <1>1, <1>2, ScriptsTypeCorrect, PTL DEF Spec, OnlyStoppedByItself

=============================================================================
