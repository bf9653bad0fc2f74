---------------------------- MODULE MCTcpSocket ----------------------------
EXTENDS TcpSocket, TLC

CONSTANTS t1, t2

MCThreads == {t1, t2}
MCPorts == {1, 2}
ThreadSymmetry == Permutations(Threads)
=============================================================================
