------------------------------- MODULE Kernel -------------------------------
(***************************************************************************)
(* The scheduler and the IPC objects together: threads that sleep, wait    *)
(* for and signal each other through several objects, and interrupts.      *)
(***************************************************************************)
EXTENDS Semaphore, Mutex, MailBox, MessageQueue, Event

kernelvars == <<vars, ipcvars, semvars, mutexvars, mbvars, mqvars, eventvars>>

KernelInit == /\ Init /\ IpcInit /\ SemInit /\ MutexInit
              /\ MailBoxInit /\ MessageQueueInit /\ EventInit

KernelNext ==
  \/ Next /\ UNCHANGED <<ipcvars, semvars, mutexvars, mbvars, mqvars, eventvars>>
  \/ SemNext /\ UNCHANGED <<mutexvars, mbvars, mqvars, eventvars>>
  \/ MutexNext /\ UNCHANGED <<semvars, mbvars, mqvars, eventvars>>
  \/ MailBoxNext /\ UNCHANGED <<semvars, mutexvars, mqvars, eventvars>>
  \/ MessageQueueNext /\ UNCHANGED <<semvars, mutexvars, mbvars, eventvars>>
  \/ EventNext /\ UNCHANGED <<semvars, mutexvars, mbvars, mqvars>>

KernelSpec == KernelInit /\ [][KernelNext]_kernelvars
-----------------------------------------------------------------------------
(* Nobody waits for what is there, in any object: no thread is suspended   *)
(* on a semaphore with a token, a mailbox with mail or with room to send,  *)
(* a queue with a message or an event set with its events.                 *)
WaitersServed == NoLostWakeup /\ MailboxWakes /\ QueueWakes /\ EventsWake
=============================================================================
