-------------------------------- MODULE Wire --------------------------------
(***************************************************************************)
(* What a request and an answer go through between a client and the        *)
(* manager: the options of ubsectl, the command the SDK makes of them,     *)
(* what the manager reads in it, the answer it prints into a buffer that   *)
(* may be too small, and what a client reads in the characters it gets.    *)
(*                                                                         *)
(* Texts are abstracted to what the conversions tell apart:                *)
(*   a number  [minus, digits], the digits by their value;                 *)
(*   a size    a number with the letter behind it, "?" standing for all    *)
(*             that is no size;                                            *)
(*   a name    [dir, base, plain]: what is before the last "/", what is    *)
(*             after it, and whether no blank is in it;                    *)
(*   a host    the sequence of the parts between its commas;               *)
(*   a row     LineStart characters, the decimal number that ends it, a    *)
(*             newline.                                                    *)
(***************************************************************************)
EXTENDS Dataplane, Sums, Sequences, SequencesExt

CONSTANTS
  Half,      \* 2^32: the values of a uint32_t
  Kilo,      \* 1024: what the letter k stands for
  HostsMax,  \* hosts the tool and the manager take
  LineStart  \* characters of a row before its last number

ASSUME WireAssumption ==
  /\ {Half, Kilo, LineStart} \subseteq Nat \ {0}
  /\ HostsMax \in Nat

\* appendf prints a uint64_t with at most 20 digits.
ASSUME DigitsAssumption ==
  \A n \in Words : \E d \in 1 .. 20 : n < 10^d /\ (d = 1 \/ n >= 10^(d - 1))

-----------------------------------------------------------------------------
(* Numbers *)

\* strtoull takes a sign and negates in the width.
Fits(n) == n.digits <= MaxWord
NumberOf(n) == IF n.minus THEN Wrap(-n.digits) ELSE n.digits

\* strtoul stops at its largest value; the cast drops the upper half.
CountOf(n) == (IF Fits(n) THEN NumberOf(n) ELSE MaxWord) % Half

Times(unit) ==
  CASE unit = "k" -> Kilo
    [] unit = "m" -> Kilo * Kilo
    [] unit = "g" -> Kilo * Kilo * Kilo
    [] OTHER -> 1

\* Mutant: the product is not tested.
SizeParsesUntested(t) == t.unit # "?" /\ Fits(t)

\* parse_size
SizeParses(t) ==
  /\ t.unit # "?"
  /\ Fits(t)
  /\ NumberOf(t) <= MaxWord \div Times(t.unit)

SizeOf(t) == Wrap(NumberOf(t) * Times(t.unit))

-----------------------------------------------------------------------------
(* Requests *)

\* The name of no disk and the name of no user, in a command.
Dash == "-"

\* normalize_disk_name
Normalizes(name) ==
  name.plain /\ name.dir # "other" /\ (name.base = "" => name.dir = "")

NameInCommand(name) == IF name.base = "" THEN Dash ELSE name.base

\* build_host_list: "local" for no host, and no host with a comma in it.
ListsHosts(hosts) == \A i \in DOMAIN hosts : Len(hosts[i]) = 1
HostsInCommand(hosts) ==
  IF hosts = <<>> THEN <<"local">> ELSE FlattenSeq(hosts)

\* ubse_ssu_sdk_allocate refuses the rest.
SdkSends(req) ==
  /\ req.size # 0
  /\ ListsHosts(req.hosts)
  /\ Normalizes(req.name)

AllocateCommand(req) ==
  [op |-> "ALLOCATE", size |-> req.size, disks |-> req.disks,
   hosts |-> HostsInCommand(req.hosts), name |-> NameInCommand(req.name)]

\* cmd_allocate: what it takes of its options.
ToolTakes(typed) ==
  /\ SizeParses(typed.size)
  /\ Len(typed.hosts) <= HostsMax
  /\ typed.name.plain

Options(typed) ==
  [size |-> SizeOf(typed.size), disks |-> CountOf(typed.disks),
   hosts |-> typed.hosts, name |-> typed.name]

\* cmd_alloc: the older command, which the tool sends itself.
AllocCommand(size) ==
  [op |-> "ALLOC", size |-> SizeOf(size), disks |-> 1, hosts |-> <<>>,
   name |-> Dash]

\* handle_allocate and handle_alloc: what the manager is asked to make.
ManagerTakes(cmd) == Len(cmd.hosts) <= HostsMax
Decoded(cmd) ==
  [size |-> cmd.size, disks |-> cmd.disks, hosts |-> cmd.hosts,
   name |-> IF cmd.name = Dash THEN "" ELSE cmd.name]

-----------------------------------------------------------------------------
(* Answers *)

DigitsOf(n) == CHOOSE d \in 1 .. 20 : n < 10^d /\ (d = 1 \/ n >= 10^(d - 1))

\* The characters of the first n rows, as appendf puts them one behind the
\* other.
CharsOf(rows, n) ==
  SumOf([i \in 0 .. n - 1 |-> LineStart + DigitsOf(rows[i + 1].sector) + 1], n)

\* What is left of row i in an answer with room for so many characters.
Torn == [torn |-> TRUE]
Left(rows, i, room) ==
  LET row == rows[i]
      chars == room - CharsOf(rows, i - 1) - LineStart
      digits == DigitsOf(row.sector)
  IN  CASE chars <= 0 -> Torn
        [] chars >= digits -> row
        [] OTHER -> [row EXCEPT !.sector = @ \div 10^(digits - chars)]

\* The lines of the answer: those before the end of the buffer.
LinesTold(rows, room) ==
  LET told == {i \in DOMAIN rows : CharsOf(rows, i - 1) < room}
  IN  [i \in told |-> Left(rows, i, room)]

Understood(line) == line # Torn

\* allocate_result_get: a row it cannot read is an error, a row that is not
\* there is none.
ResultOk(rows, room) ==
  \A i \in DOMAIN LinesTold(rows, room) : Understood(LinesTold(rows, room)[i])

\* Mutant: the rows are not counted.
ListOkUncounted(rows, room) == ResultOk(rows, room)

\* list: the rows are counted, too.
ListOk(rows, room) ==
  ResultOk(rows, room) /\ Len(LinesTold(rows, room)) = Len(rows)

\* QUERY logdev and its readers: rows they cannot read are passed over.
RowsHeard(rows, room) ==
  LET lines == LinesTold(rows, room)
      read[i \in 0 .. Len(lines)] ==
        IF i = 0 THEN <<>>
        ELSE IF Understood(lines[i]) THEN Append(read[i - 1], lines[i])
        ELSE read[i - 1]
  IN  read[Len(lines)]

\* No number of the answer has lost digits.
NumbersWhole(rows, room) ==
  \A i \in DOMAIN LinesTold(rows, room) :
    LinesTold(rows, room)[i] \in {rows[i], Torn}
==============================================================================
