------------------------------ MODULE MCSearch ------------------------------
EXTENDS SearchServer
CONSTANTS u, v, q, x, y, s1, s2
MCRow == {<<u, x, 1>>, <<u, y, 1>>, <<v, x, 2>>, <<q, x, 1>>}
MCRequest == {{x, y}, {x}}
MCLimit == {-1, 1}
=============================================================================
