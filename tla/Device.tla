------------------------------- MODULE Device -------------------------------
(* device.cpp, object.cpp and the output of kservice.cpp: devices that     *)
(* register under a name, are opened and closed by several users, and one  *)
(* of which is the console that printk writes to.  Only main calls these   *)
(* functions, so a call is one step.  The drivers of the kernel            *)
(* leave driver_open and driver_close to the class and never fail.         *)
EXTENDS Integers, Sequences

CONSTANTS Devices, Names, NULL,
          Standalone,       \* the devices with FLAG_STANDALONE
          Message,          \* what printk is called with
          NotUnique,        \* and what it says of a name that is taken
          MaxUsers,         \* users of a device besides the console, below 255
          MaxPrints         \* calls of printk; the early ones fit into _log_buf

VARIABLES live, name, open_flag, ref_count,  \* per device; open_flag is OFLAG_OPEN
          object_container,                   \* by name, of the class of devices
          console, log_buf,                   \* _console_device and _log_buf
          users,                              \* history: granted opens not closed
          shared,                             \* history: names given to two objects
          out, printed                        \* history: what devices wrote, what was printed

objvars == <<live, name, object_container, shared>>
openvars == <<open_flag, ref_count, users>>
logvars == <<console, log_buf, out, printed>>
devvars == <<objvars, openvars, logvars>>

DevInit ==
  /\ live = [d \in Devices |-> FALSE]
  /\ name = [d \in Devices |-> NULL]
  /\ open_flag \in [Devices -> BOOLEAN]
  /\ ref_count = [d \in Devices |-> 0]
  /\ object_container = [n \in Names |-> NULL]
  /\ console = NULL /\ log_buf = <<>>
  /\ users = [d \in Devices |-> 0] /\ shared = {}
  /\ out = <<>> /\ printed = <<>>

(* A device that is not open swallows what is written.                     *)
Written(q) == IF ref_count[console] = 0 THEN <<>> ELSE q


(* printk: until there is a console the messages wait in _log_buf.         *)
Prints(m) ==
  /\ Len(printed) < MaxPrints
  /\ printed' = Append(printed, m)
  /\ IF console = NULL
     THEN log_buf' = Append(log_buf, m) /\ UNCHANGED out
     ELSE log_buf' = <<>> /\ out' = out \o Written(Append(log_buf, m))
  /\ UNCHANGED console

(* The constructors of Device and Object.  No one sets open_flag_, which   *)
(* keeps what the memory held.  A name that is taken is left to its owner, *)
(* with a message.                                                         *)
construct(d, n) ==
  /\ ~live[d]
  /\ live' = [live EXCEPT ![d] = TRUE]
  /\ name' = [name EXCEPT ![d] = n]
  /\ ref_count' = [ref_count EXCEPT ![d] = 0]
  /\ IF object_container[n] = NULL
     THEN object_container' = [object_container EXCEPT ![n] = d] /\ UNCHANGED logvars
     ELSE UNCHANGED object_container /\ Prints(NotUnique)
  /\ shared' = shared \union {x \in {n} : \E e \in Devices : live[e] /\ name[e] = n}
  /\ UNCHANGED <<open_flag, users>>

(* Mutant of detach: the name stays in the container.                      *)
detach_not(d) == object_container

(* It is the name that leaves the container, whoever has it.               *)
detach(d) == [object_container EXCEPT ![name[d]] = NULL]

(* A device is deleted by those who made it and only when no one uses it;  *)
(* as mouse_init and Console::Instance do when the name was taken.         *)
destroy(d) ==
  /\ live[d] /\ users[d] = 0 /\ console # d
  /\ live' = [live EXCEPT ![d] = FALSE]
  /\ name' = [name EXCEPT ![d] = NULL]
  /\ object_container' = detach(d)
  /\ UNCHANGED <<shared, openvars, logvars>>

find(n) == object_container[n]

Opens(f, d) == [flag |-> [f.flag EXCEPT ![d] = TRUE], ref |-> [f.ref EXCEPT ![d] = (@ + 1) % 256]]

(* Mutant of Busy: a stand-alone device is opened again.                   *)
Busy_not(f, d) == FALSE

Busy(f, d) == d \in Standalone /\ f.flag[d]
Opened(f, d) == IF Busy(f, d) THEN f ELSE Opens(f, d)

(* The last close closes the device.                                       *)
Closed(f, d) ==
  [flag |-> [f.flag EXCEPT ![d] = IF f.ref[d] = 1 THEN FALSE ELSE @],
   ref |-> [f.ref EXCEPT ![d] = IF @ = 0 THEN 0 ELSE @ - 1]]

Files == [flag |-> open_flag, ref |-> ref_count]
NowFiles(f) == open_flag' = f.flag /\ ref_count' = f.ref

open(d) ==
  /\ live[d] /\ users[d] < MaxUsers
  /\ NowFiles(Opened(Files, d))
  /\ users' = IF Busy(Files, d) THEN users ELSE [users EXCEPT ![d] = @ + 1]
  /\ UNCHANGED <<objvars, logvars>>

close(d) ==
  /\ live[d] /\ users[d] > 0
  /\ NowFiles(Closed(Files, d))
  /\ users' = [users EXCEPT ![d] = @ - 1]
  /\ UNCHANGED <<objvars, logvars>>

(* The old console is closed before the new one, maybe the same, is opened.*)
(* The consoles of the kernel are no stand-alone devices.                  *)
console_set_device(n) ==
  LET newd == find(n)
      f == IF console = NULL THEN Files ELSE Closed(Files, console)
  IN  /\ newd \notin Standalone
      /\ IF newd = NULL THEN UNCHANGED <<console, openvars>>
         ELSE console' = newd /\ NowFiles(Opened(f, newd)) /\ UNCHANGED users
      /\ UNCHANGED <<objvars, log_buf, out, printed>>

printk(m) == Prints(m) /\ UNCHANGED <<objvars, openvars>>

DevNext ==
  \/ \E d \in Devices : destroy(d) \/ open(d) \/ close(d) \/ \E n \in Names : construct(d, n)
  \/ \E n \in Names : console_set_device(n)
  \/ \E m \in Message : printk(m)


(* find returns a live device of that name, and a device that never had to *)
(* share its name is found as long as it lives.                            *)
NamesFound ==
  /\ \A n \in Names : find(n) # NULL => live[find(n)] /\ name[find(n)] = n
  /\ \A d \in Devices : live[d] /\ name[d] \notin shared => find(name[d]) = d

(* ref_count_ counts the users and the console, a device in use has its    *)
(* OFLAG_OPEN, and a stand-alone device has one user at most.              *)
OpenCounted ==
  \A d \in Devices : live[d] =>
    /\ ref_count[d] = users[d] + (IF console = d THEN 1 ELSE 0)
    /\ ref_count[d] > 0 => open_flag[d]
    /\ d \in Standalone => ref_count[d] <= 1
=============================================================================
