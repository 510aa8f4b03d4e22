--------------------------- MODULE MCNeuronProcess ---------------------------
\* The instance of the neuron_process run: a validator or a miner.
EXTENDS NeuronProcess

MCKinds == {"validator", "miner"}
=============================================================================
