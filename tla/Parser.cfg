SPECIFICATION FairSpec
CONSTANT Inputs <- Everything
INVARIANTS TreeIsTheSource Binding AgainTheSame
PROPERTY ParseEnds
CHECK_DEADLOCK FALSE
