CONSTANTS
  m1 = m1
  m2 = m2
  m3 = m3
  m4 = m4
  Nil = Nil
  Masternodes = {m1, m2, m3, m4}
  Faulty = {m4}
  CertNum = 667
  CertDen = 1000
  Rounds = {1, 2, 3, 4}
  Bodies = {1}
SYMMETRY HonestSymmetry
SPECIFICATION Spec
INVARIANTS
  OneCertificatePerRound
  CommittedIsFinal
  Agreement
