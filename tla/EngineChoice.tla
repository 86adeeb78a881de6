---------------------------- MODULE EngineChoice ----------------------------
(***************************************************************************)
(* Which llama.cpp build suits this computer (crates/tiles-engine): what   *)
(* GPUs and drivers it has, from sources of which any may not answer, and  *)
(* the engine that Tiles runs on them.                                     *)
(*                                                                         *)
(* A version of the NVIDIA driver, and the CUDA version it brings, is the  *)
(* newest CUDA build it is new enough for: 13, 12 or 0.                    *)
(***************************************************************************)
EXTENDS Integers, FiniteSets

CONSTANT Nothing      \* a source did not answer

Downloaded == {"cuda-13", "cuda-12", "vulkan"}
Bundled == {"cpu", "metal"}
Engine == Downloaded \union Bundled

\* How an NVIDIA GPU shows: one that CUDA 13 has code for, another one, or one
\* whose compute capability is not known.
Gpus == SUBSET {"native", "other", "unread"}
Version == {0, 12, 13}
Hardware == [macos : BOOLEAN, arm : BOOLEAN, nvidia : Gpus,
             driver : Version \union {Nothing}, cuda : Version \union {Nothing},
             vendors : SUBSET {"known", "unknown"}, loader : BOOLEAN]

\* What the sources tell: nvidia-smi, the driver's libraries in a process of their
\* own, and the kernel (GPUs, the driver's version, the vendors of the cards).
SmiAnswer == [gpus : Gpus, driver : Version \union {Nothing}]
LibsAnswer == [gpus : Gpus, driver : Version \union {Nothing}, cuda : Version \union {Nothing}]
Answers == [smi : SmiAnswer \union {Nothing}, libs : LibsAnswer \union {Nothing},
            proc : Gpus, version : Version \union {Nothing},
            cards : SUBSET {"nvidia", "known", "unknown"}, arm : BOOLEAN, loader : BOOLEAN]

First(a, b) == IF a # Nothing THEN a ELSE b

\* detect: nvidia-smi, then the folders in /proc, then the driver's libraries
\* for what is not known yet; graphics cards of other vendors, and an NVIDIA
\* card that its driver does not run, come from the kernel.
Detect(answers) ==
    LET smi  == First(answers.smi, [gpus |-> {}, driver |-> Nothing])
        seen == IF smi.gpus = {} THEN answers.proc ELSE smi.gpus
        incomplete == seen = {} \/ smi.driver = Nothing \/ "unread" \in seen
        libs == First(IF incomplete THEN answers.libs ELSE Nothing,
                      [gpus |-> {}, driver |-> Nothing, cuda |-> Nothing])
        found == IF libs.gpus = {} THEN seen ELSE libs.gpus
    IN  [macos |-> FALSE, arm |-> answers.arm,
         nvidia |-> IF found = {} /\ "nvidia" \in answers.cards THEN {"unread"} ELSE found,
         driver |-> First(First(smi.driver, libs.driver), answers.version),
         cuda |-> libs.cuda,
         vendors |-> answers.cards \ {"nvidia"},
         loader |-> answers.loader]

\* Whether llama.cpp has a build for the processor.
Built(e, hw) == e \in {"cuda-13", "vulkan"} \/ (e = "cuda-12" /\ ~hw.arm)

\* A driver number counts before the CUDA version that libcuda tells.
RunsCuda(hw, needs) ==
    /\ hw.nvidia # {}
    /\ First(hw.driver, hw.cuda) # Nothing
    /\ First(hw.driver, hw.cuda) >= needs

CanRun(e, hw) ==
    \/ e = "cpu"
    \/ /\ Built(e, hw)
       /\ \/ e = "cuda-13" /\ RunsCuda(hw, 13)
          \/ e = "cuda-12" /\ RunsCuda(hw, 12)
          \/ e = "vulkan" /\ hw.nvidia \union hw.vendors # {} /\ hw.loader

\* The engines are tried in one order.
Rank(e) ==
    IF e = "cuda-13" THEN 1 ELSE IF e = "cuda-12" THEN 2 ELSE IF e = "vulkan" THEN 3 ELSE 4
Foremost(engines) == CHOOSE e \in engines : \A d \in engines : Rank(e) <= Rank(d)

\* choices, those that failed their check left out: the engines to try.
Choices(hw, failed) ==
    IF hw.macos THEN {"metal"}
    ELSE {e \in Downloaded \union {"cpu"} : CanRun(e, hw) /\ e \notin failed}

\* CUDA 12 covers every GPU, CUDA 13 those it was compiled for; a GPU of an
\* unknown vendor is mostly a virtual display.
Suits(e, hw) ==
    /\ e = "cuda-13" => (hw.nvidia # {} /\ hw.nvidia \subseteq {"native"}) \/ hw.arm
    /\ e = "vulkan" => hw.nvidia # {} \/ "known" \in hw.vendors
AutoEngine(hw, failed) == Foremost({e \in Choices(hw, failed) : Suits(e, hw)})

\* engine_to_run: the picked engine while it can run here.
EngineToRun(pick, hw, failed) ==
    IF pick \in Choices(hw, failed) THEN pick ELSE AutoEngine(hw, failed)

\* The engines that are tried when one was wanted: it, and those after it.
From(wanted, hw, failed) == {e \in Choices(hw, failed) : Rank(wanted) <= Rank(e)}
===============================================================================
