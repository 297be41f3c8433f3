------------------------- MODULE MCTransitionMemory -------------------------
EXTENDS TransitionMemory

\* Every well-formed workload of four tasks with at most two inputs and one
\* output each, up to the names of the tensors: the tensors are numbers,
\* taken in order.  A task may write a tensor that exists already, as an
\* operation in place does, and read one twice.
Written(w) == UNION {Range(w[i].outs) : i \in DOMAIN w}

TasksAfter(w) ==
  LET W == Written(w)
      fresh == {Cardinality(W) + 1}
  IN  [ins : {<<>>} \cup {<<x>> : x \in W}
             \cup {<<p[1], p[2]>> : p \in {q \in W \X W : q[1] <= q[2]}},
       outs : {<<>>} \cup {<<x>> : x \in W \cup fresh}]

Longer(ws) == UNION {{Append(w, task) : task \in TasksAfter(w)} : w \in ws}

WorkloadsOf4 == {w \in Longer(Longer(Longer(Longer({<<>>})))) : WellFormed(w)}

\* And the shapes of the networks' branches: two residual blocks, the second
\* with its last operation in place, and an inception block whose branches
\* write the two halves of one parent tensor, 5, that is read as a whole.
Task(ins, outs) == [ins |-> ins, outs |-> outs]
Residual == <<Task(<<>>, <<1>>), Task(<<1>>, <<2>>), Task(<<2>>, <<3>>),
              Task(<<1, 3>>, <<4>>), Task(<<4>>, <<5>>), Task(<<5>>, <<5>>),
              Task(<<4, 5>>, <<>>)>>
Inception == <<Task(<<>>, <<1>>), Task(<<1>>, <<2>>), Task(<<2>>, <<5>>),
               Task(<<1>>, <<3>>), Task(<<3>>, <<4>>), Task(<<4>>, <<5>>),
               Task(<<5, 5>>, <<>>)>>

SmallAndKnown == WorkloadsOf4 \cup {Residual, Inception}
=============================================================================
