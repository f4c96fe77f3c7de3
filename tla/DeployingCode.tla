---------------------------- MODULE DeployingCode ----------------------------
(***************************************************************************)
(* createDeployingByteCode: the code that cloneLogic has executed on the   *)
(* target chain so that it returns the source contract's code, which       *)
(* stands right behind it.  Numbers go into it with as many bytes as they  *)
(* need, so what it says of its own length depends on how it says it.      *)
(*                                                                         *)
(* Abstractions.  A behaviour is a deployment.  Of the source's code only  *)
(* the length matters.  Memory is what was last copied to its start.       *)
(***************************************************************************)
EXTENDS Integers, Sequences

CONSTANT CodeLengths   \* lengths of the source contract's code

ASSUME CodeAssumption == CodeLengths \subseteq 0..(256^3 - 1)

VARIABLES
  codeLength,  \* of the source contract
  value,       \* what is sent along with the deployment
  at,          \* the program counter of the EVM
  stack,       \* its stack, the top being the first
  memory,      \* what CODECOPY copied to the start of memory
  deployed     \* what the deployment ended with

evmVars == <<codeLength, value, at, stack, memory, deployed>>

-----------------------------------------------------------------------------
(***************************************************************************)
(* createDeployingByteCode.                                                *)
(***************************************************************************)
PUSH1 == 96
DUP1 == 128
CODECOPY == 57
RETURN == 243
STOP == 0
Preamble == <<96, 128, 96, 64, 82, 52, 128, 21, 97, 0, 16, 87, 96, 0, 128, 253, 91, 80>>

\* The hexadecimal digits of x, padded to whole bytes.
HexBytes(x) ==
  LET n == CHOOSE i \in 1..3 : x < 256^i /\ (i > 1 => x >= 256^(i - 1))
  IN  [i \in 1..n |-> (x \div 256^(n - i)) % 256]

Push(bytes) == <<PUSH1 + Len(bytes) - 1>> \o bytes

\* Mutant: the length is counted without the STOP at the end.
DeployCodeLengthWithoutStop(before) ==
  LET counted == Len(before) + 8 IN HexBytes(Len(HexBytes(counted)) - 1 + counted)

\* deployCodeLength: nine more bytes follow what is there, if the length takes one.
DeployCodeLength(before) ==
  LET counted == Len(before) + 9 IN HexBytes(Len(HexBytes(counted)) - 1 + counted)

\* The deploying code in front of a code of length n.
DeployCode(n) ==
  LET before == Preamble \o Push(HexBytes(n)) \o <<DUP1>>
  IN  before \o Push(DeployCodeLength(before))
        \o <<PUSH1, 0, CODECOPY, PUSH1, 0, RETURN, STOP>>

-----------------------------------------------------------------------------
(***************************************************************************)
(* The EVM, as far as this code needs it.                                  *)
(***************************************************************************)
Nothing == [offset |-> 0, size |-> 0]

CodeInit ==
  /\ codeLength \in CodeLengths
  /\ value \in {0, 1}
  /\ at = 0 /\ stack = <<>>
  /\ memory = Nothing
  /\ deployed = [how |-> "running", code |-> Nothing]

Opcode == DeployCode(codeLength)[at + 1]
Rest(n) == SubSeq(stack, n + 1, Len(stack))

\* An instruction that goes on: what it leaves on the stack, and how long it is.
Computes(newStack, length) ==
  /\ stack' = newStack /\ at' = at + length
  /\ UNCHANGED memory

Ends(how, code) ==
  /\ deployed' = [how |-> how, code |-> code]
  /\ UNCHANGED <<at, stack, memory>>

Instruction ==
  /\ deployed.how = "running"
  /\ \/ /\ UNCHANGED deployed
        /\ \/ /\ Opcode \in PUSH1..(PUSH1 + 31)
              /\ LET n == Opcode - PUSH1 + 1
                     pushed == SubSeq(DeployCode(codeLength), at + 2, at + 1 + n)
                     number == IF n = 1 THEN pushed[1]
                               ELSE IF n = 2 THEN 256 * pushed[1] + pushed[2]
                               ELSE 65536 * pushed[1] + 256 * pushed[2] + pushed[3]
                 IN  Computes(<<number>> \o stack, 1 + n)
           \/ Opcode = DUP1 /\ Computes(<<stack[1]>> \o stack, 1)
           \/ Opcode = 52 /\ Computes(<<value>> \o stack, 1)                           \* CALLVALUE
           \/ Opcode = 21 /\ Computes(<<IF stack[1] = 0 THEN 1 ELSE 0>> \o Rest(1), 1) \* ISZERO
           \/ Opcode = 82 /\ Computes(Rest(2), 1)                                      \* MSTORE
           \/ Opcode = 80 /\ Computes(Rest(1), 1)                                      \* POP
           \/ Opcode = 91 /\ Computes(stack, 1)                                        \* JUMPDEST
           \/ /\ Opcode = 87                                                           \* JUMPI
              /\ stack[2] = 0 \/ DeployCode(codeLength)[stack[1] + 1] = 91
              /\ Computes(Rest(2), IF stack[2] = 0 THEN 1 ELSE stack[1] - at)
           \/ /\ Opcode = CODECOPY /\ stack[1] = 0
              /\ memory' = [offset |-> stack[2], size |-> stack[3]]
              /\ stack' = Rest(3) /\ at' = at + 1
     \/ Opcode = 253 /\ Ends("reverted", Nothing)
     \/ Opcode = RETURN /\ stack[1] = 0 /\ Ends("returned", [memory EXCEPT !.size = stack[2]])
  /\ UNCHANGED <<codeLength, value>>

CodeSpec == CodeInit /\ [][Instruction]_evmVars /\ WF_evmVars(Instruction)

-----------------------------------------------------------------------------
(***************************************************************************)
(* Properties.                                                             *)
(***************************************************************************)
\* The logic contract is deployed with the source contract's code, no byte more
\* and no byte less, at every length at which the numbers take another byte.
DeploysTheCode ==
  <>(deployed = IF value = 0
                THEN [how |-> "returned", code |-> [offset |-> Len(DeployCode(codeLength)), size |-> codeLength]]
                ELSE [how |-> "reverted", code |-> Nothing])

=============================================================================
