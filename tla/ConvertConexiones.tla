------------------------- MODULE ConvertConexiones -------------------------
(***************************************************************************)
(* The SQL generator scripts/convert_conexiones.py.  main() reads          *)
(* ./conexiones_usuarios.json and appends one tuple per record to an       *)
(* INSERT INTO ips statement, reads ./public_servers.json and appends one  *)
(* tuple per record to an INSERT INTO services statement, then cuts the    *)
(* last character off each statement, appends ";" and prints it.          *)
(*                                                                         *)
(* A file is either Missing (open or json.loads raises) or the list of    *)
(* records it holds.  A usuarios record is [id, ok, quotes]: id tells      *)
(* records apart, ok is FALSE for a record missing one of the five keys,   *)
(* quotes is the number of ' characters in its text values.  A servers     *)
(* record is [id, quotes, address]: address is service[0] as the sequence  *)
(* of its "/"-separated parts, which is what split("/") returns.  A        *)
(* statement is a sequence of tokens: its head, the separator characters   *)
(* " ", "," and ";" as tokens of their own, and one token per tuple, so    *)
(* that cutting the last character is dropping the last token.            *)
(***************************************************************************)
EXTENDS Integers, Sequences, SequencesExt

CONSTANTS
    UsuariosInputs,   \* candidate contents of ./conexiones_usuarios.json
    ServersInputs,    \* candidate contents of ./public_servers.json
    Missing           \* a file that cannot be opened or parsed

VARIABLES
    usuarios,   \* ./conexiones_usuarios.json
    servers,    \* ./public_servers.json
    pc,         \* the next statement of main() to run
    services,   \* the list the current loop iterates over
    i,          \* the loop cursor
    output1,    \* the ips statement being built
    output2,    \* the services statement being built
    stdout      \* the statements printed so far

vars == <<usuarios, servers, pc, services, i, output1, output2, stdout>>

\* A token of a statement: literal text, or the tuple formatted from the
\* record with a given id.  Both f-strings wrap three values in '...', so
\* a tuple holds six delimiting ' characters plus those of the values, which
\* are interpolated unescaped.  A services tuple also carries the address
\* parts it prints: addr_cidr[0] and addr_cidr[1].
Text(x) == <<"text", x>>
IpTuple(r) == <<"tuple", r.id, 6 + r.quotes>>
ServerTuple(r) == <<"tuple", r.id, 6 + r.quotes, <<r.address[1], r.address[2]>>>>

IpsHead == Text("INSERT INTO ips VALUES")
ServicesHead == Text("INSERT INTO services VALUES")

\* A terminating step that appends ";" without cutting the trailing comma
\* (StatementsCarryRecords).
TerminateNoCut(o) == o \o <<Text(";")>>

\* output[0:len(output)-1] + ";"
Terminate(o) == Front(o) \o <<Text(";")>>

Init ==
    /\ usuarios \in UsuariosInputs
    /\ servers \in ServersInputs
    /\ pc = "read1"
    /\ services = <<>>
    /\ i = 0
    /\ output1 = <<>>
    /\ output2 = <<>>
    /\ stdout = <<>>

\* A ReadServers that prints the ips statement before reading the second
\* file, the slip NoOutputOnAbort is there to catch.
ReadServersAfterPrint ==
    /\ pc = "loop1"
    /\ i > Len(services)
    /\ servers # Missing
    /\ stdout' = Append(stdout, Terminate(output1))
    /\ services' = servers
    /\ i' = 1
    /\ pc' = "loop2"
    /\ UNCHANGED <<usuarios, servers, output1, output2>>

\* A ReadServers that keeps the cursor of the first loop (TypeOK).
ReadServersNoReset ==
    /\ pc = "loop1"
    /\ i > Len(services)
    /\ servers # Missing
    /\ services' = servers
    /\ pc' = "loop2"
    /\ UNCHANGED <<usuarios, servers, i, output1, output2, stdout>>

\* Both statements get their heads, then the with-block reads the first
\* file.
ReadUsuarios ==
    /\ pc = "read1"
    /\ usuarios # Missing
    /\ output1' = <<IpsHead, Text(" ")>>
    /\ output2' = <<ServicesHead, Text(" ")>>
    /\ services' = usuarios
    /\ i' = 1
    /\ pc' = "loop1"
    /\ UNCHANGED <<usuarios, servers, stdout>>

\* open() raises FileNotFoundError, or json.loads raises: main() aborts.
ReadUsuariosFails ==
    /\ pc = "read1"
    /\ usuarios = Missing
    /\ pc' = "crashed"
    /\ UNCHANGED <<usuarios, servers, services, i, output1, output2, stdout>>

\* output1 += f"('{Nombre}',{Nodo},{Vlan},'{Tipo}','{IP}'),"
AppendIp ==
    /\ pc = "loop1"
    /\ i <= Len(services)
    /\ services[i].ok
    /\ output1' = output1 \o <<IpTuple(services[i]), Text(",")>>
    /\ i' = i + 1
    /\ UNCHANGED <<usuarios, servers, pc, services, output2, stdout>>

\* A record without one of the five keys: KeyError aborts main().
AppendIpFails ==
    /\ pc = "loop1"
    /\ i <= Len(services)
    /\ ~services[i].ok
    /\ pc' = "crashed"
    /\ UNCHANGED <<usuarios, servers, services, i, output1, output2, stdout>>

\* The first loop is done; the second with-block reads the second file.
ReadServers ==
    /\ pc = "loop1"
    /\ i > Len(services)
    /\ servers # Missing
    /\ services' = servers
    /\ i' = 1
    /\ pc' = "loop2"
    /\ UNCHANGED <<usuarios, servers, output1, output2, stdout>>

ReadServersFails ==
    /\ pc = "loop1"
    /\ i > Len(services)
    /\ servers = Missing
    /\ pc' = "crashed"
    /\ UNCHANGED <<usuarios, servers, services, i, output1, output2, stdout>>

\* addr_cidr = service[0].split("/"); addr = addr_cidr[0];
\* cidr = addr_cidr[1]; output2 += f"('{addr}',...,'{cidr}'),"
AppendServer ==
    /\ pc = "loop2"
    /\ i <= Len(services)
    /\ Len(services[i].address) >= 2
    /\ output2' = output2 \o <<ServerTuple(services[i]), Text(",")>>
    /\ i' = i + 1
    /\ UNCHANGED <<usuarios, servers, pc, services, output1, stdout>>

\* An address with no "/": addr_cidr[1] raises IndexError.
AppendServerFails ==
    /\ pc = "loop2"
    /\ i <= Len(services)
    /\ Len(services[i].address) < 2
    /\ pc' = "crashed"
    /\ UNCHANGED <<usuarios, servers, services, i, output1, output2, stdout>>

\* Lines 30-32: cut, terminate and print the ips statement.
PrintIps ==
    /\ pc = "loop2"
    /\ i > Len(services)
    /\ output1' = Terminate(output1)
    /\ stdout' = Append(stdout, Terminate(output1))
    /\ pc' = "print2"
    /\ UNCHANGED <<usuarios, servers, services, i, output2>>

\* Lines 35-37: the same for the services statement; main() returns.
PrintServices ==
    /\ pc = "print2"
    /\ output2' = Terminate(output2)
    /\ stdout' = Append(stdout, Terminate(output2))
    /\ pc' = "done"
    /\ UNCHANGED <<usuarios, servers, services, i, output1>>

Next ==
    \/ ReadUsuarios \/ ReadUsuariosFails
    \/ AppendIp \/ AppendIpFails
    \/ ReadServers \/ ReadServersFails
    \/ AppendServer \/ AppendServerFails
    \/ PrintIps
    \/ PrintServices

\* main() is single-threaded and never blocks.
Spec == Init /\ [][Next]_vars /\ WF_vars(Next)

(***************************************************************************)
(* Properties                                                              *)
(***************************************************************************)

\* A sequence of tuples, comma-separated.
CommaJoined(tups) ==
    [j \in 1..(2 * Len(tups) - 1) |->
        IF j % 2 = 1 THEN tups[(j + 1) \div 2] ELSE Text(",")]

\* The statement a sequence of tuples should produce.
Statement(head, tups) == <<head, Text(" ")>> \o CommaJoined(tups) \o <<Text(";")>>

TypeOK ==
    /\ pc \in {"read1", "loop1", "loop2", "print2", "done", "crashed"}
    /\ i \in 0..(Len(services) + 1)
    /\ Len(stdout) <= 2

\* Each printed statement holds exactly one tuple per record of its file,
\* in file order, separated by commas and closed by ";" with no comma
\* left before it: the loops, the cut of the last character and the ";"
\* together produce the statement, for every file that has records.
StatementsCarryRecords ==
    /\ Len(stdout) >= 1 /\ usuarios # <<>> =>
           stdout[1] = Statement(IpsHead, [k \in DOMAIN usuarios |-> IpTuple(usuarios[k])])
    /\ Len(stdout) = 2 /\ servers # <<>> =>
           stdout[2] = Statement(ServicesHead,
                                 [k \in DOMAIN servers |-> ServerTuple(servers[k])])

\* A run that aborts (a missing or malformed file, a bad record of either
\* file) has printed nothing: main() prints only after both files were read
\* and formatted in full, so no half of the output is ever loaded alone.
NoOutputOnAbort ==
    pc = "crashed" => stdout = <<>>

\* Spec 6: the script prints two INSERT statements; an INSERT needs at
\* least one tuple after VALUES.  For an empty list the cut of the last
\* character removes the space after VALUES, not a comma.
StatementHasValues ==
    \A k \in DOMAIN stdout : \E j \in DOMAIN stdout[k] : stdout[k][j][1] = "tuple"

\* Spec 6: the script prints SQL INSERT statements.  Every ' of a printed
\* tuple must delimit one of its three string literals; a value holding a
\* ' (a name such as O'Brien) ends its literal early.
TuplesWellQuoted ==
    \A k \in DOMAIN stdout : \A j \in DOMAIN stdout[k] :
        stdout[k][j][1] = "tuple" => stdout[k][j][3] = 6

\* A services tuple must carry its record's address in full: joining addr
\* and cidr with "/" gives service[0] back.  split("/") on an address with
\* a second "/" yields three parts, and the f-string prints only two.
AddressesKept ==
    Len(stdout) = 2 =>
        \A j \in DOMAIN stdout[2] :
            stdout[2][j][1] = "tuple" =>
                stdout[2][j][4] = servers[stdout[2][j][2]].address

=============================================================================
