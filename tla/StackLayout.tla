----------------------------- MODULE StackLayout -----------------------------
(***************************************************************************)
(* From the attributes of a thread to its stack (_thread_detail.hpp,       *)
(* _thread.hpp, _thread.cpp): the shared state is put at the start of the  *)
(* memory, the task gets the rest, and thread_info tells how much of all   *)
(* that has been used.  One thread makes one thread after the other; a     *)
(* new attempt starts when the last thread is gone.                        *)
(*                                                                         *)
(* Addresses and sizes are bytes, with a small word and small limits.      *)
(***************************************************************************)
EXTENDS Integers

CONSTANTS
  Word,                    \* sizeof(uint32_t)
  StateAlign, StateSize,   \* of the shared state
  LongDouble,              \* the strictest alignment, which is malloc's
  MinStack,                \* minimum_custom_stack_size, the registers of a task
  TooLarge,                \* 2^24
  StackBegins, StackSizes,           \* the custom stacks that are tried
  NoStack                  \* nullptr

ASSUME StackConstants ==
  /\ {Word, StateAlign, StateSize, LongDouble, MinStack, TooLarge} \subseteq Nat \ {0}
  /\ StackBegins \cup StackSizes \subseteq Nat /\ NoStack \notin Nat
  /\ MinStack % Word = 0

VARIABLES
  stage,               \* what comes next
  g_stack_allocation_enabled, g_default_stack_size,
  m_stackBegin, m_stackSize, m_initialStackBase,   \* of the ThreadProperties
  m_ownedStack,        \* of the Deleter, and then of the shared state
  stateAt,             \* the address of the shared state
  granted,             \* the memory: its first byte and the one behind it
  lowest,              \* the lowest byte that the task has used
  m_usedStack          \* of a thread_info, -1 before it is asked for

stackVars == <<stage, g_stack_allocation_enabled, g_default_stack_size, m_stackBegin, m_stackSize,
               m_initialStackBase, m_ownedStack, stateAt, granted, lowest, m_usedStack>>
settings == <<g_stack_allocation_enabled, g_default_stack_size>>
inTask == <<lowest, m_usedStack>>

Nothing == /\ m_stackBegin = NoStack /\ m_stackSize = 0 /\ m_initialStackBase = NoStack
           /\ m_ownedStack = NoStack /\ stateAt = NoStack /\ granted = <<0, 0>>
           /\ lowest = 0 /\ m_usedStack = -1

StackInit == /\ stage = "attributes" /\ Nothing
             /\ g_stack_allocation_enabled = FALSE /\ g_default_stack_size = 0

\* The start again, with the memory given back.
Gone == /\ stage' = "attributes"
        /\ m_stackBegin' = NoStack /\ m_stackSize' = 0 /\ m_initialStackBase' = NoStack
        /\ m_ownedStack' = NoStack /\ stateAt' = NoStack /\ granted' = <<0, 0>>
        /\ lowest' = 0 /\ m_usedStack' = -1
        /\ UNCHANGED settings

End == m_stackBegin + m_stackSize

\* Up to the next multiple of a.
AlignedUp(address, a) == ((address + a - 1) \div a) * a

\* Align the beginning of the rest, if n bytes fit behind it.
AlignTo(a, n, next) ==
  LET diff == AlignedUp(m_stackBegin, a) - m_stackBegin
  IN IF m_stackSize >= diff + n
       THEN /\ m_stackBegin' = m_stackBegin + diff /\ m_stackSize' = m_stackSize - diff
            /\ stage' = next
            /\ UNCHANGED <<settings, m_initialStackBase, m_ownedStack, stateAt, granted, inTask>>
       ELSE Gone
-----------------------------------------------------------------------------
(* The settings, which may change at any time. *)

set_stack_allocation_enabled(enable) ==
  /\ g_stack_allocation_enabled' = enable
  /\ UNCHANGED <<stage, g_default_stack_size, m_stackBegin, m_stackSize, m_initialStackBase,
                 m_ownedStack, stateAt, granted, inTask>>

set_default_stack_size(bytes) ==
  /\ g_default_stack_size' = bytes
  /\ UNCHANGED <<stage, g_stack_allocation_enabled, m_stackBegin, m_stackSize, m_initialStackBase,
                 m_ownedStack, stateAt, granted, inTask>>
-----------------------------------------------------------------------------
(* A thread. *)

\* thread_attributes with a custom stack, or with a size only, or the default ones.
Attributes(begin, bytes) ==
  /\ stage = "attributes" /\ stage' = "allocate"
  /\ m_stackBegin' = begin /\ m_stackSize' = bytes /\ m_initialStackBase' = begin
  /\ granted' = IF begin = NoStack THEN <<0, 0>> ELSE <<begin, begin + bytes>>
  /\ UNCHANGED <<settings, m_ownedStack, stateAt, inTask>>

\* The memory asked for is m_stackSize, which is zero when the default size is meant.
Allocate_Custom ==
  /\ stage = "allocate" /\ m_stackBegin # NoStack
  /\ stage' = "align"
  /\ UNCHANGED <<settings, m_stackBegin, m_stackSize, m_initialStackBase, m_ownedStack, stateAt,
                 granted, inTask>>

Allocate ==
  /\ stage = "allocate" /\ m_stackBegin = NoStack
  /\ LET bytes == IF m_stackSize = 0 THEN g_default_stack_size ELSE m_stackSize
     IN IF ~g_stack_allocation_enabled \/ bytes = 0 THEN Gone
        ELSE /\ stage' = "align"
             /\ m_stackBegin' = LongDouble /\ m_initialStackBase' = LongDouble
             /\ m_ownedStack' = LongDouble
             /\ granted' = <<LongDouble, LongDouble + m_stackSize>>
             /\ m_stackSize' = bytes
             /\ UNCHANGED <<settings, stateAt, inTask>>

\* malloc has no memory: bad_alloc.
Allocate_Fails == stage = "allocate" /\ m_stackBegin = NoStack /\ Gone

\* thread::create: the state is constructed at the aligned beginning, or it throws.
Align == stage = "align" /\ AlignTo(StateAlign, StateSize, "construct")

Construct_Throws == stage = "construct" /\ Gone

Construct_State ==
  /\ stage = "construct"
  /\ stateAt' = m_stackBegin /\ stage' = "offset"
  /\ UNCHANGED <<settings, m_stackBegin, m_stackSize, m_initialStackBase, m_ownedStack, granted, inTask>>

\* A stack that starts behind the state, with the size of the whole memory.
OffsetBy_KeepSize ==
  /\ stage = "offset" /\ stage' = "max_align"
  /\ m_stackBegin' = m_stackBegin + StateSize /\ UNCHANGED m_stackSize
  /\ UNCHANGED <<settings, m_initialStackBase, m_ownedStack, stateAt, granted, inTask>>

OffsetBy ==
  /\ stage = "offset" /\ stage' = "max_align"
  /\ m_stackBegin' = m_stackBegin + StateSize /\ m_stackSize' = m_stackSize - StateSize
  /\ UNCHANGED <<settings, m_initialStackBase, m_ownedStack, stateAt, granted, inTask>>

\* thread::do_create
MaxAlign == stage = "max_align" /\ AlignTo(LongDouble, 0, "check")

\* The words of the stack, as the kernel counts them.
Words == m_stackSize \div Word

\* The rest is large enough for the registers of the task, which the kernel puts at its
\* end; a size of 2^24 does not fit into the argument of rt_tsk_create.
CreateTask ==
  /\ stage = "check"
  /\ IF m_stackSize < MinStack \/ m_stackSize >= TooLarge THEN Gone
     ELSE /\ stage' = "run"
          /\ lowest' = m_stackBegin + Words * Word - MinStack
          /\ UNCHANGED <<settings, m_stackBegin, m_stackSize, m_initialStackBase, m_ownedStack,
                         stateAt, granted, m_usedStack>>

\* The function of the thread uses a word more of its stack.
Use ==
  /\ stage = "run" /\ lowest > m_stackBegin
  /\ lowest' = lowest - Word
  /\ UNCHANGED <<stage, settings, m_stackBegin, m_stackSize, m_initialStackBase, m_ownedStack, stateAt,
                 granted, m_usedStack>>

\* thread_info::get_used_stack() goes up to the first word without the watermark, and
\* remembers the answer; for_each_thread() makes a new thread_info.
GetUsedStack ==
  /\ stage = "run" /\ m_usedStack = -1
  /\ m_usedStack' = (m_stackBegin - m_initialStackBase) + (End - lowest)
  /\ UNCHANGED <<stage, settings, m_stackBegin, m_stackSize, m_initialStackBase, m_ownedStack, stateAt,
                 granted, lowest>>

NewThreadInfo ==
  /\ stage = "run" /\ m_usedStack # -1
  /\ m_usedStack' = -1
  /\ UNCHANGED <<stage, settings, m_stackBegin, m_stackSize, m_initialStackBase, m_ownedStack, stateAt,
                 granted, lowest>>

Thread_Ends == stage = "run" /\ Gone

StackNext ==
  \/ \E enable \in BOOLEAN : set_stack_allocation_enabled(enable)
  \/ \E bytes \in StackSizes : \/ set_default_stack_size(bytes)
                              \/ \E begin \in StackBegins \cup {NoStack} : Attributes(begin, bytes)
  \/ Allocate_Custom \/ Allocate \/ Allocate_Fails \/ Align \/ Construct_Throws \/ Construct_State \/ OffsetBy
  \/ MaxAlign \/ CreateTask \/ Use \/ GetUsedStack \/ NewThreadInfo \/ Thread_Ends

StackSpec == StackInit /\ [][StackNext]_stackVars
-----------------------------------------------------------------------------
Address == Nat \cup {NoStack}

StackTypeOK ==
  /\ stage \in {"attributes", "allocate", "align", "construct", "offset", "max_align", "check", "run"}
  /\ g_stack_allocation_enabled \in BOOLEAN /\ g_default_stack_size \in Nat
  /\ {m_stackBegin, m_initialStackBase, m_ownedStack, stateAt} \subseteq Address
  /\ {m_stackSize, lowest} \subseteq Nat /\ m_usedStack \in Nat \cup {-1}
  /\ granted \in Nat \X Nat

\* get_stack_size()
StackSize == End - m_initialStackBase

\* The default size was asked for, and nothing was allocated.
Undersized == m_ownedStack # NoStack /\ granted[1] = granted[2]

\* However begin and size of the memory are aligned, the state and the stack of the
\* task lie in it, aligned, one behind the other, and the whole of it is accounted
\* for; the task has room for its registers.  thread_info reports the state and what
\* the task has used, at the time it is asked first.
StackExact ==
  m_stackBegin # NoStack =>
    /\ Undersized \/ stage = "attributes" \/ granted = <<m_initialStackBase, End>>
    /\ stateAt # NoStack =>
         /\ stateAt % StateAlign = 0 /\ stateAt >= m_initialStackBase /\ stateAt + StateSize <= End
         /\ stage # "offset" => m_stackBegin >= stateAt + StateSize
    /\ stage = "run" =>
         /\ m_stackBegin % LongDouble = 0 /\ lowest >= m_stackBegin
         /\ m_stackSize \in MinStack .. TooLarge - 1
         /\ m_usedStack # -1 => /\ m_usedStack <= StackSize - (lowest - m_stackBegin)
                                /\ m_usedStack >= StateSize + MinStack
=============================================================================
