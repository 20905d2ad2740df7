---------------------------- MODULE KernelString ----------------------------
(***************************************************************************)
(* The string that the modules of 20_kernel_module keep in the kernel and  *)
(* that processes read and write as a device (dev), a file in /proc (proc) *)
(* or one in /sys (sys).  A read/write lock covers each copy, which is     *)
(* made byte by byte.  dev and proc go on where the last call on the file  *)
(* stopped and need not leave a terminator; sys always works on the whole  *)
(* string and terminates it.  A longer text is refused with -EINVAL and    *)
(* changes nothing.                                                        *)
(***************************************************************************)
EXTENDS Integers, Sequences, FiniteSetsExt, SequencesExt

CONSTANTS
    Users,     \* processes that have the file open
    NoUser,    \* the lock is not held for writing
    Size,      \* bytes of the string, 20
    Chars,     \* characters a text may have
    Nul,       \* '\0'
    Behind,    \* another byte, behind the string in the kernel's memory
    MaxCalls   \* bound: calls of a process

StringAssumption ==
    /\ NoUser \notin Users
    /\ Size \in Nat \ {0}
    /\ MaxCalls \in Nat
    /\ Nul # Behind
    /\ {Nul, Behind} \cap Chars = {}
    /\ Chars # {}

VARIABLES
    module,   \* which of the three is loaded
    string,
    readers,  \* who holds lock for reading
    writer,   \* who holds it for writing
    at,       \* where each process is
    off,      \* where it is in its file
    size,     \* bytes still to be read
    bytes,    \* bytes still to be written
    buff,     \* what its last read gave
    calls,    \* how many calls it has made
    whole,    \* history: the string if every write were one step
    asked     \* history: whole, off and size when its last read began

vars == <<module, string, readers, writer, at, off, size, bytes, buff, calls, whole, asked>>

Texts == UNION {[1..n -> Chars] : n \in 0..Size}

Init ==
    /\ module \in {"dev", "proc", "sys"}
    /\ \E c \in Chars : string = [i \in 1..Size |-> IF i = 1 /\ Size > 1 THEN c ELSE Nul]
    /\ readers = {}
    /\ writer = NoUser
    /\ at = [u \in Users |-> "user"]
    /\ off = [u \in Users |-> 0]
    /\ size = [u \in Users |-> 0]
    /\ bytes = [u \in Users |-> <<>>]
    /\ buff = [u \in Users |-> <<>>]
    /\ calls = [u \in Users |-> 0]
    /\ whole = string
    /\ asked = [u \in Users |-> [whole |-> string, off |-> 0, size |-> 0]]

\* What the C string s may be taken for: up to its terminator, and if it has
\* none up to the first zero byte behind it.
CStrings(s) ==
    LET End == SelectInSeq(s, LAMBDA c : c = Nul) IN
    IF End > 0 THEN {SubSeq(s, 1, End - 1)} ELSE {s, Append(s, Behind)}

\* At most n bytes of t from position o on.
Piece(t, o, n) == SubSeq(t, o + 1, Min({o + n, Len(t)}))

-----------------------------------------------------------------------------
\* A call to read n bytes that has got the lock.  The page that sys gives to
\* sysfs has room for everything.
read_lock(u, n) ==
    /\ at[u] = "user"
    /\ calls[u] < MaxCalls
    /\ writer = NoUser
    /\ module = "sys" => n = Size + 1
    /\ readers' = readers \cup {u}
    /\ size' = [size EXCEPT ![u] = n]
    /\ buff' = [buff EXCEPT ![u] = <<>>]
    /\ at' = [at EXCEPT ![u] = "strlen"]
    /\ asked' = [asked EXCEPT ![u] = [whole |-> whole, off |-> off[u], size |-> n]]
    /\ UNCHANGED <<module, string, writer, off, bytes, calls, whole>>

strlen(u) ==
    /\ at[u] = "strlen"
    /\ \E s \in CStrings(string) :
          size' = [size EXCEPT ![u] = Max({0, Min({@, Len(s) - off[u]})})]
    /\ at' = [at EXCEPT ![u] = "reads"]
    /\ UNCHANGED <<module, string, readers, writer, off, bytes, buff, calls, whole, asked>>

copy_to_user(u) ==
    /\ at[u] = "reads"
    /\ size[u] > 0
    /\ off' = [off EXCEPT ![u] = @ + 1]
    /\ size' = [size EXCEPT ![u] = @ - 1]
    /\ buff' = [buff EXCEPT ![u] = Append(@, IF off'[u] > Size THEN Behind ELSE string[off'[u]])]
    /\ UNCHANGED <<module, string, readers, writer, at, bytes, calls, whole, asked>>

\* The call is over; in /sys the next one begins at the first byte again.
Returns(u) ==
    /\ at' = [at EXCEPT ![u] = "user"]
    /\ off' = IF module = "sys" THEN [off EXCEPT ![u] = 0] ELSE off
    /\ calls' = [calls EXCEPT ![u] = @ + 1]

read_unlock(u) ==
    /\ at[u] = "reads"
    /\ size[u] = 0
    /\ readers' = readers \ {u}
    /\ Returns(u)
    /\ UNCHANGED <<module, string, writer, size, bytes, buff, whole, asked>>

\* The bytes that a write of text t at position o puts into the string.
Fitting(t, o) ==
    IF module = "sys" THEN Append(Piece(t, 0, Size - 1), Nul) ELSE Piece(t, 0, Max({0, Size - o}))

\* Mutant: a writer waits for other writers only.
write_lock_shared(u, t) ==
    /\ at[u] = "user"
    /\ calls[u] < MaxCalls
    /\ writer = NoUser
    /\ writer' = u
    /\ bytes' = [bytes EXCEPT ![u] = Fitting(t, off[u])]
    /\ at' = [at EXCEPT ![u] = "writes"]
    /\ whole' = [i \in 1..Size |-> IF i - off[u] \in DOMAIN bytes'[u] THEN bytes'[u][i - off[u]]
                                   ELSE whole[i]]
    /\ UNCHANGED <<module, string, readers, off, size, buff, calls, asked>>

\* A call to write t that has got the lock.
write_lock(u, t) ==
    /\ at[u] = "user"
    /\ calls[u] < MaxCalls
    /\ writer = NoUser
    /\ readers = {}
    /\ writer' = u
    /\ bytes' = [bytes EXCEPT ![u] = Fitting(t, off[u])]
    /\ at' = [at EXCEPT ![u] = "writes"]
    /\ whole' = [i \in 1..Size |-> IF i - off[u] \in DOMAIN bytes'[u] THEN bytes'[u][i - off[u]]
                                   ELSE whole[i]]
    /\ UNCHANGED <<module, string, readers, off, size, buff, calls, asked>>

copy_from_user(u) ==
    /\ at[u] = "writes"
    /\ bytes[u] # <<>>
    /\ off' = [off EXCEPT ![u] = @ + 1]
    /\ string' = [string EXCEPT ![off'[u]] = Head(bytes[u])]
    /\ bytes' = [bytes EXCEPT ![u] = Tail(@)]
    /\ UNCHANGED <<module, readers, writer, at, size, buff, calls, whole, asked>>

write_unlock(u) ==
    /\ at[u] = "writes"
    /\ bytes[u] = <<>>
    /\ writer' = NoUser
    /\ Returns(u)
    /\ UNCHANGED <<module, string, readers, size, bytes, buff, whole, asked>>

read_string(u) ==
    \/ \E n \in 1..(Size + 1) : read_lock(u, n)
    \/ strlen(u) \/ copy_to_user(u) \/ read_unlock(u)

write_string(u) ==
    \/ \E t \in Texts : write_lock(u, t)
    \/ copy_from_user(u) \/ write_unlock(u)

Next == \E u \in Users : read_string(u) \/ write_string(u)

Spec == Init /\ [][Next]_vars

-----------------------------------------------------------------------------
(* Properties *)

\* Reads and writes are atomic although they copy byte by byte: what a call to
\* read has given is a piece of the string as whole writes had made it when
\* the call got the lock, and between writes the string is that itself.  A
\* reader of /sys never gets what lies behind the string; of the others only
\* if writes have filled the string to its last byte.
WholeReads ==
    /\ writer = NoUser => string = whole
    /\ \A u \in Users :
          LET a == asked[u] IN
          at[u] = "user" =>
              /\ \E s \in CStrings(a.whole) : buff[u] = Piece(s, a.off, a.size)
              /\ Behind \in ToSet(buff[u]) => module # "sys"
=============================================================================
