-------------------------- MODULE CommandChannelMC --------------------------
EXTENDS CommandChannel, TLC

CallersAreAlike == Permutations(Tasks)
=============================================================================
