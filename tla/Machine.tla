------------------------------ MODULE Machine ------------------------------
(***************************************************************************)
(* The parts of the machine that share no state with each other in the     *)
(* model, each under its own events: the devices, the clock, the boot, the *)
(* page file, the command prompt, pages allocated by request, and the      *)
(* programs on the user heap.  A behaviour is one of one part: what another*)
(* part does in between changes nothing that the part reads.               *)
(***************************************************************************)
EXTENDS Console, Clock, BootMemory, PageFile, CommandPrompt, UserPages, HeapScripts,
        SortingPrograms

VARIABLE part    \* the part that runs

parts == {"console", "clock", "boot", "page file", "prompt", "user pages",
          "heap tests", "sorting"}

machine == <<part, console, clock, bootMemory, pageFile, commandPrompt, userPages,
             heapScripts, sorter>>

MachineInit ==
  /\ part \in parts
  /\ ConsoleInit /\ ClockInit /\ BootInit /\ PageFileInit /\ CommandPromptInit
  /\ UserPagesInit /\ HeapScriptsInit /\ SortingInit

but_console == <<clock, bootMemory, pageFile, commandPrompt, userPages, heapScripts, sorter>>
but_clock == <<console, bootMemory, pageFile, commandPrompt, userPages, heapScripts, sorter>>
but_boot == <<console, clock, pageFile, commandPrompt, userPages, heapScripts, sorter>>
but_file == <<console, clock, bootMemory, commandPrompt, userPages, heapScripts, sorter>>
but_prompt == <<console, clock, bootMemory, pageFile, userPages, heapScripts, sorter>>
but_pages == <<console, clock, bootMemory, pageFile, commandPrompt, heapScripts, sorter>>
but_heap == <<console, clock, bootMemory, pageFile, commandPrompt, userPages, sorter>>
but_sorting == <<console, clock, bootMemory, pageFile, commandPrompt, userPages, heapScripts>>

MachineNext ==
  /\ UNCHANGED part
  /\ \/ part = "console" /\ ConsoleNext /\ UNCHANGED but_console
     \/ part = "clock" /\ ClockNext /\ UNCHANGED but_clock
     \/ part = "boot" /\ BootNext /\ UNCHANGED but_boot
     \/ part = "page file" /\ PageFileNext /\ UNCHANGED but_file
     \/ part = "prompt" /\ run_command_prompt /\ UNCHANGED but_prompt
     \/ part = "user pages" /\ UserPagesNext /\ UNCHANGED but_pages
     \/ part = "heap tests" /\ HeapScriptsNext /\ UNCHANGED but_heap
     \/ part = "sorting" /\ SortingNext /\ UNCHANGED but_sorting

MachineSpec == MachineInit /\ [][MachineNext]_machine

(***************************************************************************)
(* Every part's state is of its type: ring positions inside the buffer,    *)
(* shift states, counters of the timer within 16 bits, settings of the     *)
(* command prompt, blocks of the heap.                                     *)
(***************************************************************************)
MachineTypeOK ==
  /\ part \in parts
  /\ ConsoleTypeOK /\ ClockTypeOK /\ PromptTypeOK /\ HeapScriptsTypeOK /\ SortingTypeOK
============================================================================
