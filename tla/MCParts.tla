------------------------------- MODULE MCParts -------------------------------
(***************************************************************************)
(* The parts that share nothing with each other, each in behaviours of its *)
(* own: `part` is the one that moves, and the others stay as they begin.   *)
(***************************************************************************)
EXTENDS Dashboard, Pages, Sandbox, Emulator, MemoryScanner, VirusTotal, Notifier, Sensors,
        Heuristics, RuleEngine, TLC

CONSTANTS Parts, f1, f2, p1, p2, p3

VARIABLE part

partVars == <<part, vars, pageVars, sandboxVars, emulatorVars, memVars, vtVars, notifierVars,
              sensorVars, heuristicsVars, streamVars, ruleVars>>

Harmless ==
  [target |-> FALSE, ignored |-> FALSE, execExt |-> TRUE, double |-> FALSE, mz |-> TRUE,
   elf |-> FALSE, features |-> TRUE, doc |-> FALSE, yara |-> FALSE, vt |-> FALSE,
   system |-> FALSE, self |-> FALSE, packer |-> FALSE, entropy |-> FALSE, signed |-> FALSE,
   trust |-> "trusted", ml |-> FALSE, sandbox |-> FALSE]

\* A packed program without a signature, that runs out of an ignored folder, and a document.
MCLook == (f1 :> [Harmless EXCEPT !.packer = TRUE, !.target = TRUE, !.ignored = TRUE])
          @@ (f2 :> [Harmless EXCEPT !.execExt = FALSE, !.mz = FALSE])

MCCode == (p1 :> <<"rdtsc", "alloc", "stos", "jump">>)
          @@ (p2 :> <<"inject", "alloc", "ret">>) @@ (p3 :> <<>>)

Plain == [exec |-> FALSE, write |-> TRUE, private |-> TRUE, anon |-> TRUE,
          size |-> 1, head |-> "data"]

MCContents == {Plain, [Plain EXCEPT !.exec = TRUE, !.size = 2],
               [Plain EXCEPT !.exec = TRUE, !.write = FALSE, !.head = "pe"]}

Unsuspected ==
  [p \in Pids |-> [birth |-> 1, image |-> [alive |-> TRUE, jit |-> FALSE, runtime |-> FALSE,
                                          memory |-> [i \in 1..Regions |-> Plain]]]]

MCGaps == {-1, 1, 3, 4, 7}

\* The rules that are read: one with each condition of up to three words, and of the
\* expressions of two levels; and folders of several files.
Names == {"selection", "filter", "hook"}
Grown(X) == X \cup {<<"not">> \o x : x \in X} \cup {<<"(">> \o x \o <<")">> : x \in X}
              \cup {x \o <<op>> \o y : x \in X, y \in X, op \in {"and", "or"}}
Words == {"(", ")", "and", "or", "not", "selection", "nosuch", "*"}
MCConditions ==
  Grown(Grown({<<w>> : w \in Names}))
    \cup UNION {[1..n -> Words] : n \in 0..3}

SelectionOf(sel) == [hook |-> FALSE, criteria |-> sel]
ARule(condition) ==
  [form |-> "rule", category |-> "process_create", level |-> "high", condition |-> condition,
   selections |->
     [selection |-> SelectionOf(<<[field |-> "image", modifier |-> "endswith", values |-> <<<<2>>>>],
                             [field |-> "pid", modifier |-> "equals", values |-> <<<<1>>>>]>>),
      filter |-> SelectionOf(<<[field |-> "args", modifier |-> "contains",
                           values |-> <<<<1, 1>>, <<2>>>>]>>),
      hook |-> [hook |-> TRUE, criteria |-> <<>>]]]

BadModifier ==
  [ARule(<<"selection">>) EXCEPT !.selections.selection.criteria[2].modifier = "re",
                                 !.category = "any", !.level = "critical"]
AFile(docs) == [yaml |-> TRUE, docs |-> docs]
Incomplete == [form |-> "incomplete"]

MCFolders ==
  {<<AFile(<<ARule(c)>>)>> : c \in MCConditions}
    \cup {<<>>, <<AFile(<<BadModifier, ARule(<<"not", "filter">>)>>)>>,
          <<AFile(<<ARule(<<"selection">>), Incomplete>>), AFile(<<ARule(<<"filter">>)>>)>>,
          <<AFile(<<ARule(<<"filter">>)>>), [yaml |-> FALSE, docs |-> <<>>]>>,
          <<AFile(<<[form |-> "text"]>>)>>}

AnEvent(image, pid, extra) ==
  [type |-> "process_create", top |-> [image_path |-> image, pid |-> pid], extra |-> extra]
MCEvents ==
  {AnEvent(<<1, 2>>, <<1>>, [args |-> <<2, 1>>]), AnEvent(<<1, 2>>, <<1>>, [x |-> 0]),
   AnEvent(<<1, 1>>, NoText, [args |-> <<1>>]), AnEvent(NoText, NoText, [args |-> <<1, 1>>]),
   [AnEvent(<<1, 2>>, <<1>>, [x |-> 0]) EXCEPT !.type = "file_write"]}

Init ==
  /\ part \in Parts
  /\ DashboardInit /\ (part # "scan" => timers = {} /\ user = "library")
  /\ SandboxInit /\ (part # "sandbox" => system = "linux")
  /\ EmulatorInit
  /\ MemInit /\ (part # "memory" => platform = "windows" /\ process = Unsuspected)
  /\ VtInit /\ (part # "virustotal" => enabled)
  /\ NotifierInit /\ (part # "notifier" => toast)
  /\ SensorsInit /\ (part # "sensors" => host = "windows" /\ sockets = {})
  /\ HeuristicsInit /\ StreamsInit
  /\ PagesInit /\ (part # "pages" => page = "memory")
  /\ RulesInit /\ (part # "rules" => unread = <<>>)

Still(p) ==
  /\ p # "scan" => UNCHANGED vars
  /\ p # "sandbox" => UNCHANGED sandboxVars
  /\ p # "emulator" => UNCHANGED emulatorVars
  /\ p # "memory" => UNCHANGED memVars
  /\ p # "virustotal" => UNCHANGED vtVars
  /\ p # "notifier" => UNCHANGED notifierVars
  /\ p # "sensors" => UNCHANGED sensorVars
  /\ p \notin {"logins", "writes"} => UNCHANGED heuristicsVars
  /\ p # "pages" => UNCHANGED pageVars
  /\ p \notin {"beacons", "cpu"} => UNCHANGED streamVars
  /\ p # "rules" => UNCHANGED ruleVars
  /\ UNCHANGED part

PartNext ==
  \/ part = "scan" /\ Next /\ Still("scan")
  \/ part = "sandbox" /\ SandboxNext /\ Still("sandbox")
  \/ part = "emulator" /\ EmulatorNext /\ Still("emulator")
  \/ part = "memory" /\ MemNext /\ Still("memory")
  \/ part = "virustotal" /\ VtNext /\ Still("virustotal")
  \/ part = "notifier" /\ NotifierNext /\ Still("notifier")
  \/ part = "sensors" /\ SensorsNext /\ Still("sensors")
  \/ part = "logins" /\ LoginsNext /\ Still("logins")
  \/ part = "writes" /\ WritesNext /\ Still("writes")
  \/ part = "beacons" /\ BeaconsNext /\ Still("beacons")
  \/ part = "cpu" /\ CpuNext /\ Still("cpu")
  \/ part = "pages" /\ PagesNext /\ Still("pages")
  \/ part = "rules" /\ RulesNext /\ Still("rules")

PartSpec == Init /\ [][PartNext]_partVars /\ Fairness /\ PagesFairness

\* The types of all, the counts that the lock of each must keep right, and that a page
\* shows the result of one scan at a time (OneAtATime).
TypeOK ==
  /\ UiOK /\ SandboxOK /\ EmulatorOK /\ MemOK /\ VtOK /\ NotifierOK /\ SensorsOK
  /\ HeuristicsOK /\ StreamsOK /\ PagesOK /\ OneAtATime /\ RulesOK

\* The buttons of a page come back after every scan that was started: of the one page
\* that is looked at in a behaviour (ButtonsComeBack and PageButtonsComeBack).
Waiting == active \/ PageWaits
AllButtonsComeBack == Waiting ~> ~Waiting
=============================================================================
